---- MODULE Spec2Model ----
(***************************************************************************)
(* Model of the patch collaborative object of heartwood                    *)
(* (radicle/src/cob/patch.rs): the Patch state, the CRDT values it is      *)
(* built from, and Patch::apply, which folds operations into the state.    *)
(*                                                                         *)
(* Strings are modelled by naturals ordered like the strings they stand    *)
(* for (0 is the empty string); Option<T> is the sequence <<>> (None) or   *)
(* <<x>> (Some(x)); entry ids, oids and timestamps are naturals.           *)
(***************************************************************************)
EXTENDS Integers, Sequences, FiniteSets, TLC

----------------------------------------------------------------------------
(* Bounds of the model *)

\* Number of distinct operations applied in one behaviour.
MaxOps == 3

\* The actors signing operations.
Authors == {"alice", "bob"}

\* Lamport clocks carried by the operations that are drawn.
Clocks == {1, 2}

\* Titles and descriptions of Edit operations, review comments, thread bodies.
Strs == {1, 2}

\* Git object ids.
Oids == {1, 2}

\* Tags.
Tags == {"t"}

----------------------------------------------------------------------------
(* Program constants *)

\* String::default(), the empty string.
EmptyString == 0

\* clock::Lamport::default().
DefaultClock == 0

\* MergeTarget::Delegates, the only (and default) variant.
Delegates == 0

\* State::Proposed (default), State::Draft, State::Archived, in derive(Ord) order.
Proposed == 0
Draft == 1
Archived == 2

None == <<>>
Some(x) == <<x>>

----------------------------------------------------------------------------
(* CRDT values (crate radicle-crdt) *)

\* Max<T>::merge: keeps the greater.
MaxMerge(a, b) == IF b > a THEN b ELSE a

\* Option<Max<T>>::merge: None is the bottom, Some merges the inner values.
OptionMaxMerge(a, b) ==
    IF a = None THEN b
    ELSE IF b = None THEN a
    ELSE Some(MaxMerge(a[1], b[1]))

\* LWWReg::from(value): a register at the default clock.
LWWRegFrom(v) == [value |-> v, clock |-> DefaultClock]

\* LWWReg<Max<T>>::set(value, clock): the larger clock wins, a tie merges the
\* values (keeps the greater).
LWWRegSet(reg, v, c) ==
    IF c > reg.clock THEN [value |-> v, clock |-> c]
    ELSE IF c = reg.clock THEN [value |-> MaxMerge(reg.value, v), clock |-> c]
    ELSE reg

\* LWWReg<Max<T>>::merge.
LWWRegMerge(a, b) == LWWRegSet(a, b.value, b.clock)

\* LWWReg<Option<Max<T>>>::merge.
LWWRegOptionMaxMerge(a, b) ==
    IF b.clock > a.clock THEN b
    ELSE IF b.clock = a.clock
         THEN [value |-> OptionMaxMerge(a.value, b.value), clock |-> a.clock]
    ELSE a

\* An element of an LWWSet that was never inserted nor removed.
Untouched == [present |-> FALSE, clock |-> -1]

\* Merge of the (present, clock) marks of one LWWSet element: the larger clock
\* wins, a tie favours removal.
MarkMerge(a, b) ==
    IF a.clock > b.clock THEN a
    ELSE IF b.clock > a.clock THEN b
    ELSE [present |-> a.present /\ b.present, clock |-> a.clock]

LWWSetDefault == [e \in {} |-> Untouched]

LWWSetGet(s, e) == IF e \in DOMAIN s THEN s[e] ELSE Untouched

\* LWWSet::insert(e, clock).
LWWSetInsert(s, e, c) ==
    [x \in DOMAIN s \cup {e} |->
        IF x = e THEN MarkMerge(LWWSetGet(s, e), [present |-> TRUE, clock |-> c])
        ELSE s[x]]

\* LWWSet::remove(e, clock).
LWWSetRemove(s, e, c) ==
    [x \in DOMAIN s \cup {e} |->
        IF x = e THEN MarkMerge(LWWSetGet(s, e), [present |-> FALSE, clock |-> c])
        ELSE s[x]]

\* LWWSet::merge.
LWWSetMerge(a, b) ==
    [x \in DOMAIN a \cup DOMAIN b |-> MarkMerge(LWWSetGet(a, x), LWWSetGet(b, x))]

\* LWWSet::iter: the elements that are present.
LWWSetElems(s) == {e \in DOMAIN s : s[e].present}

\* LWWSet::from_iter over (element, clock) pairs with one clock.
LWWSetFrom(elems, c) == [e \in elems |-> [present |-> TRUE, clock |-> c]]

----------------------------------------------------------------------------
(* Thread (crate radicle, cob/thread.rs) *)

\* Thread::default().
ThreadDefault == [comments |-> [c \in {} |-> None], timeline |-> {}]

\* thread::Action::Comment { body, reply_to }.
CommentAction(body, replyTo) ==
    [type |-> "Comment", body |-> body, replyTo |-> replyTo]

\* Thread::apply of one Comment operation: reply_to must be absent or name a
\* comment of the thread; the comment is keyed by the operation's id.
ThreadApply(thread, id, action, author, timestamp, clock) ==
    IF action.replyTo # None /\ action.replyTo[1] \notin DOMAIN thread.comments
    THEN [ok |-> FALSE, thread |-> thread]
    ELSE [ok |-> TRUE,
          thread |->
            [comments |->
                IF id \in DOMAIN thread.comments THEN thread.comments
                ELSE thread.comments @@
                     (id :> [author |-> author, body |-> action.body,
                             replyTo |-> action.replyTo, timestamp |-> timestamp]),
             timeline |-> thread.timeline \cup {<<clock, id>>}]]

----------------------------------------------------------------------------
(* Patch state *)

\* Redactable::Redacted and Redactable::Present(rev).
Redacted == [tag |-> "Redacted"]
Present(rev) == [tag |-> "Present", rev |-> rev]
IsPresent(slot) == slot.tag = "Present"

\* Redactable::merge with Redactable::Redacted: Redacted is the top.
RedactableRedact(slot) == Redacted

\* Patch::default().
PatchDefault ==
    [title       |-> LWWRegFrom(EmptyString),
     description |-> LWWRegFrom(EmptyString),
     state       |-> LWWRegFrom(Proposed),
     target      |-> LWWRegFrom(Delegates),
     tags        |-> LWWSetDefault,
     revisions   |-> [r \in {} |-> Redacted],
     timeline    |-> {}]

\* Revision::new with the base stored as the head of the revision.
RevisionNewBaseAsHead(author, description, base, oid, timestamp) ==
    [author      |-> author,
     description |-> LWWRegFrom(description),
     base        |-> base,
     oid         |-> base,
     discussion  |-> ThreadDefault,
     merges      |-> LWWSetDefault,
     reviews     |-> [a \in {} |-> None],
     timestamp   |-> timestamp]

\* Revision::new.
RevisionNew(author, description, base, oid, timestamp) ==
    [author      |-> author,
     description |-> LWWRegFrom(description),
     base        |-> base,
     oid         |-> oid,
     discussion  |-> ThreadDefault,
     merges      |-> LWWSetDefault,
     reviews     |-> [a \in {} |-> None],
     timestamp   |-> timestamp]

\* Verdict merge as an overwrite: the other verdict always wins.
VerdictMergeOverwrite(self, other) == other

\* Verdict::merge: Reject replaces Accept, nothing else changes.
VerdictMerge(self, other) ==
    IF self = "Accept" /\ other = "Reject" THEN other ELSE self

\* Option<Verdict>::merge.
OptionVerdictMerge(a, b) ==
    IF a = None THEN b
    ELSE IF b = None THEN a
    ELSE Some(VerdictMerge(a[1], b[1]))

\* LWWReg<Option<Verdict>>::merge.
LWWRegVerdictMerge(a, b) ==
    IF b.clock > a.clock THEN b
    ELSE IF b.clock = a.clock
         THEN [value |-> OptionVerdictMerge(a.value, b.value), clock |-> a.clock]
    ELSE a

\* Review::new: every register and every inline comment is at the default clock.
ReviewNew(verdict, comment, inline, timestamp) ==
    [verdict   |-> LWWRegFrom(verdict),
     comment   |-> LWWRegFrom(comment),
     inline    |-> LWWSetFrom(inline, DefaultClock),
     timestamp |-> timestamp]

\* Review::merge.
ReviewMerge(self, other) ==
    [verdict   |-> LWWRegVerdictMerge(self.verdict, other.verdict),
     comment   |-> LWWRegOptionMaxMerge(self.comment, other.comment),
     inline    |-> LWWSetMerge(self.inline, other.inline),
     timestamp |-> MaxMerge(self.timestamp, other.timestamp)]

\* Review::verdict and Review::comment.
ReviewVerdict(review) == review.verdict.value
ReviewComment(review) == review.comment.value

\* GMap::insert on the reviews of a revision: merges into an existing entry.
ReviewsInsert(reviews, author, review) ==
    IF author \in DOMAIN reviews
    THEN [reviews EXCEPT ![author] = ReviewMerge(@, review)]
    ELSE reviews @@ (author :> review)

\* Thread::merge: the comments of both threads, and both timelines.
ThreadMerge(a, b) ==
    [comments |-> [c \in DOMAIN a.comments \cup DOMAIN b.comments |->
                     IF c \in DOMAIN a.comments THEN a.comments[c]
                     ELSE b.comments[c]],
     timeline |-> a.timeline \cup b.timeline]

\* GMap::merge on the reviews of a revision: per-key merge of the reviews.
ReviewsMerge(a, b) ==
    [k \in DOMAIN a \cup DOMAIN b |->
        IF k \notin DOMAIN b THEN a[k]
        ELSE IF k \notin DOMAIN a THEN b[k]
        ELSE ReviewMerge(a[k], b[k])]

\* The merge of two Present values of one revision: the fields that are
\* semilattices are merged, the others are fixed by the revision's id.
RevisionMerge(a, b) ==
    [a EXCEPT !.description = LWWRegMerge(a.description, b.description),
              !.discussion = ThreadMerge(a.discussion, b.discussion),
              !.merges = LWWSetMerge(a.merges, b.merges),
              !.reviews = ReviewsMerge(a.reviews, b.reviews)]

\* Redactable::merge: Redacted is the top, Present merges its inner value.
RedactableMerge(a, b) ==
    IF IsPresent(a) /\ IsPresent(b) THEN Present(RevisionMerge(a.rev, b.rev))
    ELSE Redacted

\* GMap::merge on the revisions of a patch: per-key merge of the slots.
RevisionsMerge(a, b) ==
    [k \in DOMAIN a \cup DOMAIN b |->
        IF k \notin DOMAIN b THEN a[k]
        ELSE IF k \notin DOMAIN a THEN b[k]
        ELSE RedactableMerge(a[k], b[k])]

\* Patch::merge: title, description, state, target, tags and revisions are
\* merged; the timeline of self is kept as it is.
PatchMerge(self, other) ==
    [title       |-> LWWRegMerge(self.title, other.title),
     description |-> LWWRegMerge(self.description, other.description),
     state       |-> LWWRegMerge(self.state, other.state),
     target      |-> LWWRegMerge(self.target, other.target),
     tags        |-> LWWSetMerge(self.tags, other.tags),
     revisions   |-> RevisionsMerge(self.revisions, other.revisions),
     timeline    |-> self.timeline]

----------------------------------------------------------------------------
(* Operations *)

EditAction(title, description, target) ==
    [type |-> "Edit", title |-> title, description |-> description, target |-> target]
TagAction(add, remove) == [type |-> "Tag", add |-> add, remove |-> remove]
RevisionAction(description, base, oid) ==
    [type |-> "Revision", description |-> description, base |-> base, oid |-> oid]
RedactAction(revision) == [type |-> "Redact", revision |-> revision]
ReviewAction(revision, comment, verdict, inline) ==
    [type |-> "Review", revision |-> revision, comment |-> comment,
     verdict |-> verdict, inline |-> inline]
MergeAction(revision, commit) ==
    [type |-> "Merge", revision |-> revision, commit |-> commit]
ThreadAction(revision, action) ==
    [type |-> "Thread", revision |-> revision, action |-> action]

\* cob::Op.
Op(id, action, author, timestamp, clock) ==
    [id |-> id, action |-> action, author |-> author,
     timestamp |-> timestamp, clock |-> clock]

\* Results of Patch::apply.
Ok == [kind |-> "Ok", id |-> 0]
Missing(id) == [kind |-> "Missing", id |-> id]
ThreadError(id) == [kind |-> "Thread", id |-> id]

----------------------------------------------------------------------------
(* Patch::apply *)

\* Edit as a plain overwrite: the registers take the values of the operation
\* applied last, whatever its clock.
ApplyEditOverwrite(p, op) ==
    [patch |-> [p EXCEPT
                  !.title = [value |-> op.action.title, clock |-> op.clock],
                  !.description = [value |-> op.action.description, clock |-> op.clock],
                  !.target = [value |-> op.action.target, clock |-> op.clock]],
     res |-> Ok]

\* Edit as one register for the three fields: at a tie of the clock the
\* operation with the greater (title, description) wins as a whole.
ApplyEditAsRecord(p, op) ==
    LET wins == \/ op.clock > p.title.clock
                \/ /\ op.clock = p.title.clock
                   /\ \/ op.action.title > p.title.value
                      \/ /\ op.action.title = p.title.value
                         /\ op.action.description > p.description.value
    IN  [patch |-> IF wins
                   THEN [p EXCEPT
                           !.title = [value |-> op.action.title, clock |-> op.clock],
                           !.description = [value |-> op.action.description,
                                            clock |-> op.clock],
                           !.target = [value |-> op.action.target, clock |-> op.clock]]
                   ELSE p,
         res |-> Ok]

\* Action::Edit: the three registers are set at the operation's clock.
ApplyEdit(p, op) ==
    [patch |-> [p EXCEPT
                  !.title = LWWRegSet(@, op.action.title, op.clock),
                  !.description = LWWRegSet(@, op.action.description, op.clock),
                  !.target = LWWRegSet(@, op.action.target, op.clock)],
     res |-> Ok]

\* Action::Tag: every tag of `add` is inserted, then every tag of `remove` is
\* removed, all at the operation's clock.
ApplyTag(p, op) ==
    [patch |-> [p EXCEPT !.tags =
        [t \in DOMAIN p.tags \cup op.action.add \cup op.action.remove |->
            LET old == LWWSetGet(p.tags, t)
                ins == IF t \in op.action.add
                       THEN MarkMerge(old, [present |-> TRUE, clock |-> op.clock])
                       ELSE old
            IN  IF t \in op.action.remove
                THEN MarkMerge(ins, [present |-> FALSE, clock |-> op.clock])
                ELSE ins]],
     res |-> Ok]

\* Revision without the contains_key guard, as a plain map insert: the slot is
\* replaced by a fresh revision.
ApplyRevisionOverwrite(p, op) ==
    [patch |-> [p EXCEPT !.revisions =
                  [r \in DOMAIN p.revisions \cup {op.id} |->
                     IF r = op.id
                     THEN Present(RevisionNew(op.author, op.action.description,
                                  op.action.base, op.action.oid, op.timestamp))
                     ELSE p.revisions[r]]],
     res |-> Ok]

\* Revision without the contains_key guard, inserted through the merge of the
\* slot: a slot that differs from the fresh revision becomes Redacted.
ApplyRevisionMergeSlot(p, op) ==
    LET fresh == Present(RevisionNew(op.author, op.action.description,
                         op.action.base, op.action.oid, op.timestamp))
    IN  [patch |-> [p EXCEPT !.revisions =
                      [r \in DOMAIN p.revisions \cup {op.id} |->
                         IF r # op.id THEN p.revisions[r]
                         ELSE IF op.id \notin DOMAIN p.revisions THEN fresh
                         ELSE IF p.revisions[r] = fresh THEN fresh
                         ELSE Redacted]],
         res |-> Ok]

\* Action::Revision: a revision whose id is already a key is not inserted again.
ApplyRevision(p, op) ==
    IF op.id \in DOMAIN p.revisions
    THEN [patch |-> p, res |-> Ok]
    ELSE [patch |-> [p EXCEPT !.revisions =
                      @ @@ (op.id :> Present(RevisionNew(op.author,
                                op.action.description, op.action.base,
                                op.action.oid, op.timestamp)))],
          res |-> Ok]

\* Redact that inserts a Redacted slot for a revision it does not know.
ApplyRedactInsert(p, op) ==
    LET r == op.action.revision IN
    [patch |-> [p EXCEPT !.revisions =
                  [x \in DOMAIN p.revisions \cup {r} |->
                     IF x = r THEN Redacted ELSE p.revisions[x]]],
     res |-> Ok]

\* Redact that removes the revision from the map.
ApplyRedactRemove(p, op) ==
    LET r == op.action.revision IN
    IF r \in DOMAIN p.revisions
    THEN [patch |-> [p EXCEPT !.revisions =
                      [x \in DOMAIN p.revisions \ {r} |-> p.revisions[x]]],
          res |-> Ok]
    ELSE [patch |-> p, res |-> Missing(r)]

\* Action::Redact: Redacted is merged into the slot of a known revision.
ApplyRedact(p, op) ==
    LET r == op.action.revision IN
    IF r \in DOMAIN p.revisions
    THEN [patch |-> [p EXCEPT !.revisions[r] = RedactableRedact(@)], res |-> Ok]
    ELSE [patch |-> p, res |-> Missing(r)]

\* Review that silently skips a revision that is redacted.
ApplyReviewSkipRedacted(p, op) ==
    LET r == op.action.revision IN
    IF r \notin DOMAIN p.revisions THEN [patch |-> p, res |-> Missing(r)]
    ELSE IF ~IsPresent(p.revisions[r]) THEN [patch |-> p, res |-> Ok]
    ELSE [patch |-> [p EXCEPT !.revisions[r].rev.reviews =
                      ReviewsInsert(@, op.author,
                          ReviewNew(op.action.verdict, op.action.comment,
                                    op.action.inline, op.timestamp))],
          res |-> Ok]

\* Review inserted in every revision that is present, when the one it names is.
ApplyReviewEveryRevision(p, op) ==
    LET r == op.action.revision IN
    IF r \in DOMAIN p.revisions /\ IsPresent(p.revisions[r])
    THEN [patch |-> [p EXCEPT !.revisions =
                      [x \in DOMAIN p.revisions |->
                         IF IsPresent(p.revisions[x])
                         THEN [p.revisions[x] EXCEPT !.rev.reviews =
                                 ReviewsInsert(@, op.author,
                                     ReviewNew(op.action.verdict, op.action.comment,
                                               op.action.inline, op.timestamp))]
                         ELSE p.revisions[x]]],
          res |-> Ok]
    ELSE [patch |-> p, res |-> Missing(r)]

\* Action::Review: the review is inserted under the operation's author in a
\* revision that is present.
ApplyReview(p, op) ==
    LET r == op.action.revision IN
    IF r \in DOMAIN p.revisions /\ IsPresent(p.revisions[r])
    THEN [patch |-> [p EXCEPT !.revisions[r].rev.reviews =
                      ReviewsInsert(@, op.author,
                          ReviewNew(op.action.verdict, op.action.comment,
                                    op.action.inline, op.timestamp))],
          res |-> Ok]
    ELSE [patch |-> p, res |-> Missing(r)]

\* Merge recorded on every present revision of the patch.
ApplyMergeEveryRevision(p, op) ==
    LET r == op.action.revision IN
    IF r \in DOMAIN p.revisions /\ IsPresent(p.revisions[r])
    THEN [patch |-> [p EXCEPT !.revisions =
                      [x \in DOMAIN p.revisions |->
                         IF IsPresent(p.revisions[x])
                         THEN [p.revisions[x] EXCEPT !.rev.merges =
                                 LWWSetInsert(@, [node |-> op.author,
                                                  commit |-> op.action.commit,
                                                  timestamp |-> op.timestamp],
                                              op.clock)]
                         ELSE p.revisions[x]]],
          res |-> Ok]
    ELSE [patch |-> p, res |-> Missing(r)]

\* Merge that also archives the patch.
ApplyMergeArchives(p, op) ==
    LET r == op.action.revision IN
    IF r \in DOMAIN p.revisions /\ IsPresent(p.revisions[r])
    THEN [patch |-> [p EXCEPT !.revisions[r].rev.merges =
                      LWWSetInsert(@, [node |-> op.author,
                                       commit |-> op.action.commit,
                                       timestamp |-> op.timestamp], op.clock),
                     !.state = LWWRegSet(@, Archived, op.clock)],
          res |-> Ok]
    ELSE [patch |-> p, res |-> Missing(r)]

\* Action::Merge: a Merge by the operation's author is inserted at the
\* operation's clock in a revision that is present.
ApplyMerge(p, op) ==
    LET r == op.action.revision IN
    IF r \in DOMAIN p.revisions /\ IsPresent(p.revisions[r])
    THEN [patch |-> [p EXCEPT !.revisions[r].rev.merges =
                      LWWSetInsert(@, [node |-> op.author,
                                       commit |-> op.action.commit,
                                       timestamp |-> op.timestamp], op.clock)],
          res |-> Ok]
    ELSE [patch |-> p, res |-> Missing(r)]

\* Action::Thread: the thread action is applied to the discussion of a revision
\* that is present.
ApplyThread(p, op) ==
    LET r == op.action.revision IN
    IF r \in DOMAIN p.revisions /\ IsPresent(p.revisions[r])
    THEN LET t == ThreadApply(p.revisions[r].rev.discussion, op.id,
                              op.action.action, op.author, op.timestamp, op.clock)
         IN  IF t.ok
             THEN [patch |-> [p EXCEPT !.revisions[r].rev.discussion = t.thread],
                   res |-> Ok]
             ELSE [patch |-> p, res |-> ThreadError(op.action.action.replyTo[1])]
    ELSE [patch |-> p, res |-> Missing(r)]

\* One iteration of the loop of Patch::apply: the timeline entry is inserted
\* first, then the action is matched.
ApplyOp(p, op) ==
    LET q == [p EXCEPT !.timeline = @ \cup {<<op.clock, op.id>>}] IN
    CASE op.action.type = "Edit"     -> ApplyEdit(q, op)
      [] op.action.type = "Tag"      -> ApplyTag(q, op)
      [] op.action.type = "Revision" -> ApplyRevision(q, op)
      [] op.action.type = "Redact"   -> ApplyRedact(q, op)
      [] op.action.type = "Review"   -> ApplyReview(q, op)
      [] op.action.type = "Merge"    -> ApplyMerge(q, op)
      [] op.action.type = "Thread"   -> ApplyThread(q, op)

\* Patch::apply(ops): the operations are applied in order; the first error is
\* returned at once, with the state as mutated so far.
RECURSIVE Apply(_, _)
Apply(p, ops) ==
    IF ops = <<>> THEN [patch |-> p, res |-> Ok]
    ELSE LET r == ApplyOp(p, Head(ops)) IN
         IF r.res # Ok THEN r ELSE Apply(r.patch, Tail(ops))

----------------------------------------------------------------------------
(* Patch accessors *)

\* The least element of a non-empty set of (clock, id) pairs, in the order of
\* the timeline set: by clock, then by id.
TimelineMin(S) ==
    CHOOSE x \in S : \A y \in S : x[1] < y[1] \/ (x[1] = y[1] /\ x[2] <= y[2])

\* The timeline in iteration order.
RECURSIVE TimelineSeq(_)
TimelineSeq(S) ==
    IF S = {} THEN <<>>
    ELSE LET m == TimelineMin(S) IN <<m>> \o TimelineSeq(S \ {m})

\* The revisions in the order of the keys of the map, not of the timeline.
RevisionsByKey(p) ==
    LET present == {id \in DOMAIN p.revisions : IsPresent(p.revisions[id])}
        keys == TimelineSeq({<<id, id>> : id \in present})
    IN  [i \in 1..Cardinality(present) |-> keys[i][2]]

\* Patch::revisions: the ids of the timeline, in order, whose slot is Present.
Revisions(p) ==
    SelectSeq([i \in 1..Cardinality(p.timeline) |-> TimelineSeq(p.timeline)[i][2]],
              LAMBDA id : id \in DOMAIN p.revisions /\ IsPresent(p.revisions[id]))

\* Patch::latest: the last revision of revisions(), None when there is none.
Latest(p) ==
    IF Revisions(p) = <<>> THEN None ELSE Some(Revisions(p)[Len(Revisions(p))])

\* Patch::head: the oid of the latest revision.
PatchHead(p) == p.revisions[Latest(p)[1]].rev.oid

\* Patch::version: the size of the revisions map, less one.
Version(p) == Cardinality(DOMAIN p.revisions) - 1

\* Patch::title, Patch::description, Patch::target and Patch::state.
Title(p) == p.title.value
Description(p) == p.description.value
Target(p) == p.target.value
State(p) == p.state.value

----------------------------------------------------------------------------
(* The operations that are drawn.  An entry id is the hash of the entry, so   *)
(* every operation below has an id of its own, fixed by its content; ids     *)
(* 1..3 are the Revision operations, the revisions other operations name.    *)

\* Revision operations: revision 1 has the greatest clock, revisions 2 and 3
\* share a clock.
RevisionOps ==
    {Op(1, RevisionAction(EmptyString, 1, 2), "alice", 1, 2),
     Op(2, RevisionAction(1, 2, 1), "bob", 2, 1),
     Op(3, RevisionAction(2, 1, 1), "alice", 2, 1)}

RevisionIds == {op.id : op \in RevisionOps}

\* The revisions that Review, Merge and Thread operations name.
Targets == {1, 2}

\* Edit, Tag and Redact read neither the author nor the timestamp of the
\* operation: theirs are drawn with one author and one timestamp.
EditOps ==
    {Op(10 + 4 * (c - 1) + 2 * (t - 1) + (d - 1),
        EditAction(t, d, Delegates), "alice", 1, c) :
     t \in Strs, d \in Strs, c \in Clocks}

TagOps ==
    {Op(20 + 4 * (c - 1) + 2 * Cardinality(add) + Cardinality(remove),
        TagAction(add, remove), "alice", 1, c) :
     add \in SUBSET Tags, remove \in SUBSET Tags, c \in Clocks}

RedactOps == {Op(30 + r, RedactAction(r), "alice", 1, 2) : r \in RevisionIds}

\* (verdict, comment, inline, timestamp) of the Review operations.
ReviewArgs ==
    <<  <<None, None, {}, 1>>,
        <<Some("Accept"), Some(1), {}, 2>>,
        <<Some("Reject"), None, {}, 1>>,
        <<None, Some(2), {"ic"}, 2>> >>

AuthorIx(a) == IF a = "alice" THEN 0 ELSE 1

ReviewOps ==
    {Op(100 + 10 * r + 4 * AuthorIx(a) + (i - 1),
        ReviewAction(r, ReviewArgs[i][2], ReviewArgs[i][1], ReviewArgs[i][3]),
        a, ReviewArgs[i][4], 2) :
     r \in Targets, a \in Authors, i \in 1..Len(ReviewArgs)}

\* Merges: each author merges a commit of their own, at either clock.
MergeOps ==
    {Op(60 + 4 * r + 2 * AuthorIx(a) + (c - 1),
        MergeAction(r, 1 + AuthorIx(a)), a, 1, c) :
     r \in Targets, a \in Authors, c \in Clocks}

\* Thread operations: on each revision a comment by alice, and a reply to it
\* by bob.
ThreadOps ==
    {Op(80 + r, ThreadAction(r, CommentAction(1, None)), "alice", 1, 2) :
     r \in Targets}
    \cup
    {Op(90 + r, ThreadAction(r, CommentAction(2, Some(80 + r))), "bob", 2, 2) :
     r \in Targets}

AllOps ==
    RevisionOps \cup EditOps \cup TagOps \cup RedactOps \cup ReviewOps
    \cup MergeOps \cup ThreadOps

----------------------------------------------------------------------------
(* The patch under a stream of apply calls *)

VARIABLES
    patch,      \* the Patch value that apply mutates
    seen,       \* the operations applied without error so far
    pending,    \* the operations whose last application returned an error
    res,        \* the result of the last call of apply
    last,       \* the operation of the last call of apply (None before the first)
    clean       \* TRUE while no call of apply has returned an error

applyVars == <<patch, seen, pending, res, last, clean>>

\* Two nodes, each with its copy of the repository and a PatchMut handle.
VARIABLES
    entries,    \* per node, the entries of the patch held by its store
    handle,     \* per node, the PatchMut: whether it exists, its patch, its clock
    txres,      \* per node, the result of its last transaction
    nextEntry   \* the entry id that the next commit produces

syncVars == <<entries, handle, txres, nextEntry>>

\* A client of the node daemon, in one call of a method of the Node handle.
VARIABLES
    call,       \* the command of the method in progress ("" before the first)
    request,    \* the bytes the client has written on the connection
    sent,       \* the responses the daemon has written on the connection
    wire,       \* the bytes on the connection: JSON texts and line feeds
    closed,     \* TRUE once the daemon has closed the connection
    failed,     \* TRUE once reading the connection gives an I/O error
    yielded,    \* the items the iterator of Node::call has yielded
    consumed,   \* the number of bytes that iterator has read
    ret         \* what the method returned (Running until it returns)

nodeVars ==
    <<call, request, sent, wire, closed, failed, yielded, consumed, ret>>

\* TestFormula::read of radicle-cli-test, reading a test file line by line.
VARIABLES
    input,      \* the lines read so far
    test,       \* the test being built
    fenced,     \* whether the reader is inside a fenced code block
    tests,      \* self.tests
    readRes     \* "Reading", then what read returned: "Ok" or "Parse"

readVars == <<input, test, fenced, tests, readRes>>

\* One run of `rad clone`.
VARIABLES
    argv,       \* the arguments of the command
    opts,       \* what Options::from_args made of them
    pc,         \* the step of clone() to take next
    results,    \* the results of the fetch
    calls,      \* the calls made so far, each with whether it succeeded
    out         \* what the command returned ("" until it returns)

cloneVars == <<argv, opts, pc, results, calls, out>>

cliVars == <<readVars, cloneVars>>

vars == <<applyVars, syncVars, nodeVars, cliVars>>

Nodes == Authors

NoHandle == [open |-> FALSE, patch |-> PatchDefault, clock |-> DefaultClock]

InitSync ==
    /\ entries = [n \in Nodes |-> {}]
    /\ handle = [n \in Nodes |-> NoHandle]
    /\ txres = [n \in Nodes |-> Ok]
    /\ nextEntry = 1

InitApply ==
    /\ patch = PatchDefault
    /\ seen = {}
    /\ pending = {}
    /\ res = Ok
    /\ last = None
    /\ clean = TRUE

\* The result of a method that has not returned.
Running == [kind |-> "Running", cmd |-> "", value |-> ""]

InitNode ==
    /\ call = ""
    /\ request = <<>>
    /\ sent = <<>>
    /\ wire = <<>>
    /\ closed = FALSE
    /\ failed = FALSE
    /\ yielded = <<>>
    /\ consumed = 0
    /\ ret = Running

\* Test::default().
TestDefault == [context |-> <<>>, assertions |-> <<>>]

\* TestFormula::new(), at the start of read.
InitRead ==
    /\ input = <<>>
    /\ test = TestDefault
    /\ fenced = FALSE
    /\ tests = <<>>
    /\ readRes = "Reading"

\* The options before the arguments are parsed.
Unparsed ==
    [kind |-> "Unparsed", id |-> None, interactive |-> TRUE, announce |-> TRUE]

InitClone ==
    /\ argv = <<>>
    /\ opts = Unparsed
    /\ pc = "args"
    /\ results = ""
    /\ calls = <<>>
    /\ out = ""

Init == InitApply /\ InitSync /\ InitNode /\ InitRead /\ InitClone

\* patch.apply([op]).
Deliver(op) ==
    \E r \in {Apply(patch, <<op>>)} :
        /\ patch' = r.patch
        /\ res' = r.res
        /\ last' = Some(op)
        /\ seen' = IF r.res = Ok THEN seen \cup {op} ELSE seen
        /\ pending' = IF r.res = Ok THEN pending \ {op} ELSE pending \cup {op}
        /\ clean' = (clean /\ r.res = Ok)
        /\ UNCHANGED <<syncVars, nodeVars, cliVars>>

\* An operation not applied before is applied.
New(ops) ==
    /\ Cardinality(seen \cup pending) < MaxOps
    /\ \E op \in ops \ (seen \cup pending) : Deliver(op)

DoEdit == New(EditOps)

DoTag == New(TagOps)

DoRevision == New(RevisionOps)

DoRedact == New(RedactOps)

DoReview == New(ReviewOps)

DoMerge == New(MergeOps)

DoThread == New(ThreadOps)

\* An operation applied before is applied again, or one that failed is retried.
Reapply == \E op \in seen \cup pending : Deliver(op)

Next ==
    \/ DoEdit
    \/ DoTag
    \/ DoRevision
    \/ DoRedact
    \/ DoReview
    \/ DoMerge
    \/ DoThread
    \/ Reapply

Spec == Init /\ [][Next]_vars

\* Number of operations applied to a patch that is revised and reviewed.
MaxReviewOps == 4

\* An operation not applied before is applied to a patch that takes Revision,
\* Redact and Review operations only.
More(ops) ==
    /\ Cardinality(seen \cup pending) < MaxReviewOps
    /\ \E op \in ops \ (seen \cup pending) : Deliver(op)

MoreRevision == More(RevisionOps)

MoreRedact == More(RedactOps)

MoreReview == More(ReviewOps)

NextReview ==
    \/ MoreRevision
    \/ MoreRedact
    \/ MoreReview
    \/ Reapply

SpecReview == Init /\ [][NextReview]_vars

----------------------------------------------------------------------------
(* Store, history folding and transactions (crate radicle, cob/store.rs) *)

\* Number of entries committed in one behaviour.
MaxEntries == 3

\* A persisted entry: one transaction's actions with its author, clock and
\* timestamp, and the ids of the entries it follows.
Entry(id, parents, author, clock, timestamp, actions) ==
    [id |-> id, parents |-> parents, author |-> author, clock |-> clock,
     timestamp |-> timestamp, actions |-> actions]

\* Transaction::commit: the operations of an entry are its actions, each with
\* the entry's id, author, timestamp and clock.
OpsOf(e) ==
    [i \in 1..Len(e.actions) |->
        Op(e.id, e.actions[i], e.author, e.timestamp, e.clock)]

\* The tips of a history: the entries no other entry follows.
Tips(E) == {e.id : e \in E} \ UNION {e.parents : e \in E}

\* The history in fold order: topologically by the parent relation, ties
\* broken by (clock, id) ascending.
RECURSIVE TopoSort(_, _)
TopoSort(E, done) ==
    LET ready == {e \in E : e.parents \subseteq done} IN
    IF ready = {} THEN <<>>
    ELSE LET m == CHOOSE e \in ready : \A o \in ready :
                      e.clock < o.clock \/ (e.clock = o.clock /\ e.id <= o.id)
         IN  <<m>> \o TopoSort(E \ {m}, done \cup {m.id})

RemoveAt(q, i) == [j \in 1..(Len(q) - 1) |-> IF j < i THEN q[j] ELSE q[j + 1]]

\* The buffered entries are retried until none of them applies.
RECURSIVE RetryBuffered(_, _)
RetryBuffered(p, buf) ==
    LET ok == {i \in DOMAIN buf : Apply(p, OpsOf(buf[i])).res = Ok} IN
    IF ok = {} THEN [patch |-> p, buf |-> buf]
    ELSE LET i == CHOOSE i \in ok : \A j \in ok : i <= j IN
         RetryBuffered(Apply(p, OpsOf(buf[i])).patch, RemoveAt(buf, i))

\* The sweep of the fold: an entry that fails with Missing is buffered and
\* retried after each further application; any other error ends the fold; an
\* entry still buffered at the end makes the fold fail with its error.
RECURSIVE FoldSweep(_, _, _)
FoldSweep(p, buf, rest) ==
    IF rest = <<>>
    THEN [patch |-> p,
          res |-> IF buf = <<>> THEN Ok ELSE Apply(p, OpsOf(buf[1])).res]
    ELSE LET r == Apply(p, OpsOf(Head(rest))) IN
         IF r.res = Ok
         THEN LET t == RetryBuffered(r.patch, buf) IN
              FoldSweep(t.patch, t.buf, Tail(rest))
         ELSE IF r.res.kind = "Missing"
         THEN FoldSweep(r.patch, Append(buf, Head(rest)), Tail(rest))
         ELSE r

SetMax(S) == CHOOSE x \in S : \A y \in S : y <= x

\* Store::get: the fold of a history from Patch::default(), with the greatest
\* clock of its entries.
Fold(E) ==
    LET f == FoldSweep(PatchDefault, <<>>, TopoSort(E, {})) IN
    [patch |-> f.patch, res |-> f.res,
     clock |-> IF E = {} THEN DefaultClock ELSE SetMax({e.clock : e \in E})]

\* Patches::create with an initial transaction that does not tick the clock.
CreateWithoutTick(n) ==
    /\ \A m \in Nodes : entries[m] = {}
    /\ \E title \in Strs, oid \in Oids :
        LET e == Entry(nextEntry, {}, n, DefaultClock, 1,
                       << RevisionAction(EmptyString, 1, oid),
                          EditAction(title, 1, Delegates),
                          TagAction({}, {}) >>)
            r == Apply(PatchDefault, OpsOf(e))
        IN  /\ entries' = [entries EXCEPT ![n] = {e}]
            /\ handle' = [handle EXCEPT ![n] =
                            [open |-> TRUE, patch |-> r.patch, clock |-> e.clock]]
            /\ txres' = [txres EXCEPT ![n] = r.res]
    /\ nextEntry' = nextEntry + 1
    /\ UNCHANGED <<applyVars, nodeVars, cliVars>>

\* Patches::create: the initial transaction holds a Revision, an Edit and a Tag
\* action; its entry is the root of the object and its clock is 1.
Create(n) ==
    /\ \A m \in Nodes : entries[m] = {}
    /\ \E title \in Strs, oid \in Oids :
        LET e == Entry(nextEntry, {}, n, DefaultClock + 1, 1,
                       << RevisionAction(EmptyString, 1, oid),
                          EditAction(title, 1, Delegates),
                          TagAction({}, {}) >>)
            r == Apply(PatchDefault, OpsOf(e))
        IN  /\ entries' = [entries EXCEPT ![n] = {e}]
            /\ handle' = [handle EXCEPT ![n] =
                            [open |-> TRUE, patch |-> r.patch, clock |-> e.clock]]
            /\ txres' = [txres EXCEPT ![n] = r.res]
    /\ nextEntry' = nextEntry + 1
    /\ UNCHANGED <<applyVars, nodeVars, cliVars>>

\* The node fetches the entries of another node.
Fetch(n, m) ==
    /\ ~(entries[m] \subseteq entries[n])
    /\ entries' = [entries EXCEPT ![n] = @ \cup entries[m]]
    /\ UNCHANGED <<handle, txres, nextEntry, applyVars, nodeVars, cliVars>>

\* Patches::get_mut: a handle on the fold of the node's history.
GetMut(n) ==
    /\ entries[n] # {}
    /\ \E f \in {Fold(entries[n])} :
        /\ f.res = Ok
        /\ handle[n] # [open |-> TRUE, patch |-> f.patch, clock |-> f.clock]
        /\ handle' = [handle EXCEPT ![n] =
                        [open |-> TRUE, patch |-> f.patch, clock |-> f.clock]]
    /\ UNCHANGED <<entries, txres, nextEntry, applyVars, nodeVars, cliVars>>

\* A transaction that never advances the handle's clock.
TransactionKeepsClock(n, action, timestamp) ==
    /\ handle[n].open
    /\ Cardinality(UNION {entries[m] : m \in Nodes}) < MaxEntries
    /\ LET e == Entry(nextEntry, Tips(entries[n]), n, handle[n].clock + 1,
                      timestamp, <<action>>)
           r == Apply(handle[n].patch, OpsOf(e))
       IN  /\ entries' = [entries EXCEPT ![n] = @ \cup {e}]
           /\ handle' = [handle EXCEPT ![n] =
                           [open |-> TRUE, patch |-> r.patch, clock |-> @.clock]]
           /\ txres' = [txres EXCEPT ![n] = r.res]
    /\ nextEntry' = nextEntry + 1
    /\ UNCHANGED <<applyVars, nodeVars, cliVars>>

\* PatchMut::transaction with one action: the transaction is committed to the
\* store at the handle's clock ticked once, then its operations are applied to
\* the handle's patch; the handle's clock advances only if they apply.
Transaction(n, action, timestamp) ==
    /\ handle[n].open
    /\ Cardinality(UNION {entries[m] : m \in Nodes}) < MaxEntries
    /\ LET e == Entry(nextEntry, Tips(entries[n]), n, handle[n].clock + 1,
                      timestamp, <<action>>)
           r == Apply(handle[n].patch, OpsOf(e))
       IN  /\ entries' = [entries EXCEPT ![n] = @ \cup {e}]
           /\ handle' = [handle EXCEPT ![n] =
                           [open |-> TRUE, patch |-> r.patch,
                            clock |-> IF r.res = Ok THEN e.clock ELSE @.clock]]
           /\ txres' = [txres EXCEPT ![n] = r.res]
    /\ nextEntry' = nextEntry + 1
    /\ UNCHANGED <<applyVars, nodeVars, cliVars>>

\* The revisions a node can name: the keys of its handle's patch.
Known(n) == DOMAIN handle[n].patch.revisions

\* PatchMut::edit.
TxEdit(n) ==
    \E t \in Strs : Transaction(n, EditAction(t, 2, Delegates), 1)

\* PatchMut::update.
TxUpdate(n) ==
    \E oid \in Oids : Transaction(n, RevisionAction(1, 1, oid), 2)

\* PatchMut::review.
TxReview(n) ==
    \E r \in Known(n), v \in {Some("Accept"), Some("Reject")} :
        Transaction(n, ReviewAction(r, None, v, {}), 1)

\* PatchMut::merge: the revision id is an argument, and need not be the id of
\* a revision of the patch.
TxMerge(n) ==
    \E r \in Known(n) \cup (1..MaxEntries), commit \in Oids :
        Transaction(n, MergeAction(r, commit), 1)

\* PatchMut::comment.
TxComment(n) ==
    \E r \in Known(n) :
        Transaction(n, ThreadAction(r, CommentAction(1, None)), 1)

\* PatchMut::tag.
TxTag(n) ==
    \E add \in SUBSET Tags : Transaction(n, TagAction(add, {}), 1)

\* PatchMut::transaction with a Redact action.
TxRedact(n) ==
    \E r \in Known(n) : Transaction(n, RedactAction(r), 1)

NextSync ==
    \/ \E n \in Nodes : Create(n)
    \/ \E n \in Nodes : \E m \in Nodes \ {n} : Fetch(n, m)
    \/ \E n \in Nodes : GetMut(n)
    \/ \E n \in Nodes : TxEdit(n)
    \/ \E n \in Nodes : TxUpdate(n)
    \/ \E n \in Nodes : TxReview(n)
    \/ \E n \in Nodes : TxMerge(n)
    \/ \E n \in Nodes : TxComment(n)
    \/ \E n \in Nodes : TxTag(n)
    \/ \E n \in Nodes : TxRedact(n)

SpecSync == Init /\ [][NextSync]_vars

----------------------------------------------------------------------------
(* The node handle (crate radicle, node.rs) *)

\* Number of responses the daemon writes on one connection.
MaxLines == 2

\* Number of calls of next() a direct caller of Node::call makes.
MaxNext == 3

\* The reasons of the error results the daemon reports.
Reasons == {"busy", "denied"}

LF == "\n"

\* The variants of CommandName, each as the words of its identifier.
CommandNameVariants ==
    {<<"announce", "refs">>, <<"announce", "inventory">>,
     <<"sync", "inventory">>, <<"connect">>, <<"seeds">>, <<"fetch">>,
     <<"track", "repo">>, <<"untrack", "repo">>, <<"track", "node">>,
     <<"untrack", "node">>, <<"status">>, <<"shutdown">>}

\* The words of an identifier joined by underscores (snake_case).
RECURSIVE SnakeCase(_)
SnakeCase(words) ==
    IF Len(words) = 1 THEN words[1]
    ELSE words[1] \o "_" \o SnakeCase(Tail(words))

\* serde's rename_all = "kebab-case": the words joined by hyphens.
RECURSIVE KebabCase(_)
KebabCase(words) ==
    IF Len(words) = 1 THEN words[1]
    ELSE words[1] \o "-" \o KebabCase(Tail(words))

\* Display for CommandName, were the names written in snake_case.
CommandNameToStringSnake(name) == SnakeCase(name)

\* impl Display for CommandName: the string of the variant's JSON value.
CommandNameToString(name) == KebabCase(name)

\* CommandName, in its kebab-case form.
CommandNames == {CommandNameToString(name) : name \in CommandNameVariants}

\* The arguments the methods of the handle pass to Node::call.
Rid == "rad:z3gqcJUoA1n9HaHKufZs5FCSGazv5"
Nid == "z6MknSLrJoTcukLrE435hVNQT4JUhbvWLX4kUzqkEStBU8Vi"

ArgsOf(cmd) ==
    CASE cmd = "announce-refs"      -> {<<Rid>>}
      [] cmd = "announce-inventory" -> {<<>>}
      [] cmd = "sync-inventory"     -> {<<>>}
      [] cmd = "connect"            -> {<<Nid, "seed.radicle.xyz:8776">>}
      [] cmd = "seeds"              -> {<<Rid>>}
      [] cmd = "fetch"              -> {<<Rid, Nid>>}
      [] cmd = "track-repo"         -> {<<Rid, "trusted">>}
      [] cmd = "untrack-repo"       -> {<<Rid>>}
      [] cmd = "track-node"         -> {<<Nid>>, <<Nid, "eve">>}
      [] cmd = "untrack-node"       -> {<<Nid>>}
      [] cmd = "status"             -> {<<>>}
      [] cmd = "shutdown"           -> {<<>>}

\* Command::new.
Command(name, args) == [name |-> name, args |-> args]

\* The commands the methods of the handle send.
Commands ==
    UNION {{Command(name, args) : args \in ArgsOf(CommandNameToString(name))} :
              name \in CommandNameVariants}

\* The serialization of Command: `name` is written as "cmd", `args` as an
\* array of strings.
RECURSIVE ArgsToJson(_)
ArgsToJson(args) ==
    IF args = <<>> THEN ""
    ELSE "\"" \o Head(args) \o "\""
         \o (IF Len(args) = 1 THEN "" ELSE ",")
         \o ArgsToJson(Tail(args))

CommandToJson(c) ==
    "{\"cmd\":\"" \o CommandNameToString(c.name) \o "\",\"args\":["
        \o ArgsToJson(c.args) \o "]}"

\* Command::to_writer: the JSON text, then a line feed.
CommandToWriter(c) == <<CommandToJson(c), LF>>

\* The deserialization of Command: an object whose "cmd" is the kebab-case
\* name of a variant and whose "args" is an array of strings.
CommandFromStr(l) ==
    LET Text(c) == "{\"cmd\":\"" \o KebabCase(c.name) \o "\",\"args\":["
                       \o ArgsToJson(c.args) \o "]}"
    IN  IF \E c \in Commands : l = Text(c)
        THEN Some(CHOOSE c \in Commands : l = Text(c))
        ELSE None

\* CommandResult::Okay { updated } and CommandResult::Error { reason }.
Okay(updated) == [variant |-> "Okay", updated |-> updated, reason |-> ""]
ResultError(reason) == [variant |-> "Error", updated |-> FALSE, reason |-> reason]

\* CommandResult::ok() and CommandResult::updated().
CommandResultOk == Okay(FALSE)
CommandResultUpdated == Okay(TRUE)

\* A Seeds value (no seed), and the two variants of FetchResult (no ref
\* updated).
SeedsValue == [variant |-> "Seeds", updated |-> FALSE, reason |-> ""]
FetchSuccess == [variant |-> "Success", updated |-> FALSE, reason |-> ""]
FetchFailed(reason) == [variant |-> "Failed", updated |-> FALSE, reason |-> reason]

\* The serialization of CommandResult: the tag is "status"; Okay is renamed
\* "ok" and omits `updated` when it is false; Error keeps its variant name.
CommandResultToJson(r) ==
    IF r.variant = "Okay"
    THEN IF r.updated THEN "{\"status\":\"ok\",\"updated\":true}"
         ELSE "{\"status\":\"ok\"}"
    ELSE "{\"status\":\"Error\",\"reason\":\"" \o r.reason \o "\"}"

\* CommandResult::to_writer: the JSON text, then a line feed.
CommandResultToWriter(r) == <<CommandResultToJson(r), LF>>

\* The deserialization of CommandResult, were `updated` a required field.
CommandResultFromStrRequired(l) ==
    IF l = "{\"status\":\"ok\",\"updated\":false}"
    THEN Some(Okay(FALSE))
    ELSE IF l = "{\"status\":\"ok\",\"updated\":true}"
    THEN Some(Okay(TRUE))
    ELSE IF \E r \in Reasons : l = "{\"status\":\"Error\",\"reason\":\"" \o r \o "\"}"
    THEN Some(ResultError(CHOOSE r \in Reasons :
                  l = "{\"status\":\"Error\",\"reason\":\"" \o r \o "\"}"))
    ELSE None

\* The deserialization of CommandResult: `updated` defaults to false.
CommandResultFromStr(l) ==
    IF l = "{\"status\":\"ok\"}" \/ l = "{\"status\":\"ok\",\"updated\":false}"
    THEN Some(Okay(FALSE))
    ELSE IF l = "{\"status\":\"ok\",\"updated\":true}"
    THEN Some(Okay(TRUE))
    ELSE IF \E r \in Reasons : l = "{\"status\":\"Error\",\"reason\":\"" \o r \o "\"}"
    THEN Some(ResultError(CHOOSE r \in Reasons :
                  l = "{\"status\":\"Error\",\"reason\":\"" \o r \o "\"}"))
    ELSE None

\* The serialization and deserialization of Seeds and of FetchResult.
SeedsToJson(v) == "[]"
SeedsFromStr(l) == IF l = "[]" THEN Some(SeedsValue) ELSE None

FetchResultToJson(v) ==
    IF v.variant = "Success" THEN "{\"status\":\"success\",\"updated\":[]}"
    ELSE "{\"status\":\"failed\",\"reason\":\"" \o v.reason \o "\"}"

FetchResultFromStr(l) ==
    IF l = FetchResultToJson(FetchSuccess) THEN Some(FetchSuccess)
    ELSE IF \E r \in Reasons : l = FetchResultToJson(FetchFailed(r))
    THEN Some(FetchFailed(CHOOSE r \in Reasons : l = FetchResultToJson(FetchFailed(r))))
    ELSE None

\* The responses the daemon writes, and the bytes of each.
Responses ==
    {CommandResultOk, CommandResultUpdated, SeedsValue, FetchSuccess}
    \cup {ResultError(r) : r \in Reasons} \cup {FetchFailed(r) : r \in Reasons}

ResponseToWriter(v) ==
    IF v.variant \in {"Okay", "Error"} THEN CommandResultToWriter(v)
    ELSE IF v.variant = "Seeds" THEN <<SeedsToJson(v), LF>>
    ELSE <<FetchResultToJson(v), LF>>

\* The bytes of a response that was cut short by a failure of the connection.
Torn == "{\"status\":"

\* BufReader::lines, were an error of the stream reported as soon as it is
\* known, ahead of the lines already received.
RECURSIVE ReadLineEager(_, _)
ReadLineEager(pos, cur) ==
    IF failed THEN [kind |-> "Io", text |-> "", pos |-> Len(wire)]
    ELSE IF pos < Len(wire)
    THEN IF wire[pos + 1] = LF
         THEN [kind |-> "Line", text |-> cur, pos |-> pos + 1]
         ELSE ReadLineEager(pos + 1, cur \o wire[pos + 1])
    ELSE IF closed
    THEN IF cur = "" THEN [kind |-> "None", text |-> "", pos |-> pos]
         ELSE [kind |-> "Line", text |-> cur, pos |-> pos]
    ELSE [kind |-> "Pending", text |-> "", pos |-> pos]

\* BufReader::lines, one call of next() with `pos` bytes already read: the
\* text up to the next line feed; at the end of the bytes received, the error
\* of the stream, or at its end the unterminated text if there is one.
\* Pending: the read blocks.
RECURSIVE ReadLine(_, _)
ReadLine(pos, cur) ==
    IF pos < Len(wire)
    THEN IF wire[pos + 1] = LF
         THEN [kind |-> "Line", text |-> cur, pos |-> pos + 1]
         ELSE ReadLine(pos + 1, cur \o wire[pos + 1])
    ELSE IF failed THEN [kind |-> "Io", text |-> "", pos |-> pos]
    ELSE IF closed
    THEN IF cur = "" THEN [kind |-> "None", text |-> "", pos |-> pos]
         ELSE [kind |-> "Line", text |-> cur, pos |-> pos]
    ELSE [kind |-> "Pending", text |-> "", pos |-> pos]

\* What a method returns: Ok(value), or one of the errors of Error.
\* InvalidJson and CallIo are the two errors of CallError, inside Error::Call.
RetOk(value) == [kind |-> "Ok", cmd |-> "", value |-> value]
EmptyResponse(cmd) == [kind |-> "EmptyResponse", cmd |-> cmd, value |-> ""]
NodeErr(reason) == [kind |-> "Node", cmd |-> "", value |-> reason]
InvalidJson(cmd, response) == [kind |-> "InvalidJson", cmd |-> cmd, value |-> response]
CallIo == [kind |-> "Io", cmd |-> "", value |-> ""]

Unit == "()"
Bool(b) == IF b THEN "true" ELSE "false"

\* impl From<CommandResult> for Result<bool, Error>.
IntoResult(r) ==
    IF r.variant = "Okay" THEN RetOk(Bool(r.updated)) ELSE NodeErr(r.reason)

\* json::from_str::<T>, for the types T that the methods read.
FromStr(T, l) ==
    CASE T = "CommandResult" -> CommandResultFromStr(l)
      [] T = "Seeds"         -> SeedsFromStr(l)
      [] T = "FetchResult"   -> FetchResultFromStr(l)

\* The closure of Node::call, were a line that does not parse reported
\* without the command and the line.
CallNextAnonymous(cmd, T, pos) ==
    LET l == ReadLine(pos, "") IN
    IF l.kind = "Line"
    THEN IF FromStr(T, l.text) = None
         THEN [kind |-> "InvalidJson", cmd |-> "", text |-> "",
               value |-> None, pos |-> l.pos]
         ELSE [kind |-> "Ok", cmd |-> "", text |-> "",
               value |-> FromStr(T, l.text), pos |-> l.pos]
    ELSE [kind |-> l.kind, cmd |-> "", text |-> "", value |-> None, pos |-> l.pos]

\* One call of next() on the iterator of Node::call::<_, T>: a line is parsed
\* as a T, and one that does not parse is InvalidJson with the command and
\* the line; an error of the stream is passed on.
CallNext(cmd, T, pos) ==
    LET l == ReadLine(pos, "") IN
    IF l.kind = "Line"
    THEN IF FromStr(T, l.text) = None
         THEN [kind |-> "InvalidJson", cmd |-> cmd, text |-> l.text,
               value |-> None, pos |-> l.pos]
         ELSE [kind |-> "Ok", cmd |-> "", text |-> "",
               value |-> FromStr(T, l.text), pos |-> l.pos]
    ELSE [kind |-> l.kind, cmd |-> "", text |-> "", value |-> None, pos |-> l.pos]

\* What a method makes of the value it read: connect drops it, seeds and fetch
\* return it, the others convert it into Result<bool, Error>.
Converted(how, v) ==
    CASE how = "drop"   -> RetOk(Unit)
      [] how = "return" -> RetOk(v.variant)
      [] how = "into"   -> IntoResult(v)

\* `.next().ok_or(EmptyResponse { cmd })??`: the first item of the iterator
\* (Running while the read blocks).
FirstResponse(cmd, T, how) ==
    LET n == CallNext(cmd, T, 0) IN
    CASE n.kind = "Pending"     -> Running
      [] n.kind = "None"        -> EmptyResponse(cmd)
      [] n.kind = "Io"          -> CallIo
      [] n.kind = "InvalidJson" -> InvalidJson(n.cmd, n.text)
      [] n.kind = "Ok"          -> Converted(how, n.value[1])

\* `for line in .. { line?; }`: every item is taken, and its value dropped
\* (Running while the read blocks).
RECURSIVE EachResponse(_, _)
EachResponse(cmd, pos) ==
    LET n == CallNext(cmd, "CommandResult", pos) IN
    CASE n.kind = "Pending"     -> Running
      [] n.kind = "None"        -> RetOk(Unit)
      [] n.kind = "Io"          -> CallIo
      [] n.kind = "InvalidJson" -> InvalidJson(n.cmd, n.text)
      [] n.kind = "Ok"          -> EachResponse(cmd, n.pos)

\* Node::call: a connection is made and the command is written on it; the
\* iterator returned has read nothing.
Call(cmd) ==
    /\ call = "" \/ ret # Running
    /\ call' = cmd
    /\ \E c \in Commands :
          /\ CommandNameToString(c.name) = cmd
          /\ request' = CommandToWriter(c)
    /\ sent' = <<>>
    /\ wire' = <<>>
    /\ closed' = FALSE
    /\ failed' = FALSE
    /\ yielded' = <<>>
    /\ consumed' = 0
    /\ ret' = Running
    /\ UNCHANGED <<applyVars, syncVars, cliVars>>

\* The daemon writes a response on the connection.
DaemonReply(v) ==
    /\ call # "" /\ ret = Running /\ ~closed /\ ~failed
    /\ Len(sent) < MaxLines
    /\ sent' = Append(sent, v)
    /\ wire' = wire \o ResponseToWriter(v)
    /\ UNCHANGED <<call, request, closed, failed, yielded, consumed, ret,
                   applyVars, syncVars, cliVars>>

\* The daemon closes the connection.
DaemonClose ==
    /\ call # "" /\ ret = Running /\ ~closed /\ ~failed
    /\ closed' = TRUE
    /\ UNCHANGED <<call, request, sent, wire, failed, yielded, consumed, ret,
                   applyVars, syncVars, cliVars>>

\* The connection fails, between two responses or in the middle of one.
StreamFails(torn) ==
    /\ call # "" /\ ret = Running /\ ~closed /\ ~failed
    /\ failed' = TRUE
    /\ wire' = IF torn THEN Append(wire, Torn) ELSE wire
    /\ UNCHANGED <<call, request, sent, closed, yielded, consumed, ret,
                   applyVars, syncVars, cliVars>>

\* A method that reads one line returns once a line, the end of the stream or
\* an error of the stream has arrived.
Returns(cmd, result) ==
    /\ call = cmd /\ ret = Running
    /\ result # Running
    /\ ret' = result
    /\ UNCHANGED <<call, request, sent, wire, closed, failed, yielded,
                   consumed, applyVars, syncVars, cliVars>>

\* A method that reads every line returns at the end of the stream, or at the
\* first item that is an error.
ReturnsAtEnd(cmd) ==
    \E result \in {EachResponse(cmd, 0)} :
        /\ call = cmd /\ ret = Running
        /\ result # Running
        /\ ret' = result
        /\ UNCHANGED <<call, request, sent, wire, closed, failed, yielded,
                       consumed, applyVars, syncVars, cliVars>>

\* is_running: true when the first item is a CommandResult::Okay.
IsRunning ==
    \E n \in {CallNext("status", "CommandResult", 0)} :
        /\ n.kind # "Pending"
        /\ Returns("status",
                   RetOk(Bool(n.kind = "Ok" /\ n.value[1].variant = "Okay")))

Connect ==
    Returns("connect",
            FirstResponse("connect", "CommandResult", "drop"))

Seeds ==
    Returns("seeds",
            FirstResponse("seeds", "Seeds", "return"))

NodeFetch ==
    Returns("fetch",
            FirstResponse("fetch", "FetchResult", "return"))

TrackNode ==
    Returns("track-node",
            FirstResponse("track-node", "CommandResult", "into"))

TrackRepo ==
    Returns("track-repo",
            FirstResponse("track-repo", "CommandResult", "into"))

UntrackNode ==
    Returns("untrack-node",
            FirstResponse("untrack-node", "CommandResult", "into"))

UntrackRepo ==
    Returns("untrack-repo",
            FirstResponse("untrack-repo", "CommandResult", "into"))

AnnounceRefs == ReturnsAtEnd("announce-refs")

AnnounceInventory == ReturnsAtEnd("announce-inventory")

SyncInventory ==
    Returns("sync-inventory",
            FirstResponse("sync-inventory", "CommandResult", "into"))

\* A caller of Node::call::<_, CommandResult>(CommandName::Shutdown, ..) takes
\* the next item of the iterator; it stops at the end of the stream.
IterNext ==
    \E n \in {CallNext("shutdown", "CommandResult", consumed)} :
        /\ call = "shutdown" /\ ret = Running
        /\ Len(yielded) < MaxNext
        /\ n.kind # "Pending"
        /\ yielded' = Append(yielded, [kind |-> n.kind, cmd |-> n.cmd,
                                       text |-> n.text, value |-> n.value])
        /\ consumed' = n.pos
        /\ ret' = IF n.kind = "None" THEN RetOk(Unit) ELSE ret
        /\ UNCHANGED <<call, request, sent, wire, closed, failed,
                       applyVars, syncVars, cliVars>>

\* The caller drops the iterator.
IterDrop ==
    /\ call = "shutdown" /\ ret = Running
    /\ ret' = RetOk(Unit)
    /\ UNCHANGED <<call, request, sent, wire, closed, failed, yielded,
                   consumed, applyVars, syncVars, cliVars>>

NextNode ==
    \/ \E cmd \in CommandNames : Call(cmd)
    \/ \E v \in Responses : DaemonReply(v)
    \/ DaemonClose
    \/ \E torn \in BOOLEAN : StreamFails(torn)
    \/ IsRunning
    \/ Connect
    \/ Seeds
    \/ NodeFetch
    \/ TrackNode
    \/ TrackRepo
    \/ UntrackNode
    \/ UntrackRepo
    \/ AnnounceRefs
    \/ AnnounceInventory
    \/ SyncInventory
    \/ IterNext
    \/ IterDrop

SpecNode == Init /\ [][NextNode]_vars

----------------------------------------------------------------------------
(* TestFormula::read (crate radicle-cli-test, lib.rs) *)

\* Number of lines of the test file.
MaxInput == 7

\* A line is the sequence of its characters.
\* The grave accent U+0060, written ^ here; a fence is three of them.
Backtick == "^"
Fence == <<Backtick, Backtick, Backtick>>
\* ERROR_PREFIX: the ballot glyph U+2717, one character, written X here.
ERROR_PREFIX == <<"X">>

\* The lines a test file is made of: a fence, a command, a line of text, an
\* empty line, an error line and a `$` with no command.
TrackLine == <<"$", " ", "a", " ", "'", "b", " ", "c", "'">>
TextLine == <<"o", "k">>
BlankLine == <<>>
ErrorLine == <<"X", " ", "e">>
EmptyCommandLine == <<"$">>
OpenQuoteLine == <<"$", " ", "a", " ", "'", "b">>

Lines ==
    {Fence, TrackLine, TextLine, BlankLine, ErrorLine, EmptyCommandLine,
     OpenQuoteLine}

\* str::starts_with and str::strip_prefix.
StartsWith(line, prefix) ==
    /\ Len(line) >= Len(prefix)
    /\ SubSeq(line, 1, Len(prefix)) = prefix

StripPrefix(line, prefix) ==
    IF StartsWith(line, prefix)
    THEN Some(SubSeq(line, Len(prefix) + 1, Len(line)))
    ELSE None

\* str::trim.
RECURSIVE Trim(_)
Trim(s) ==
    IF s = <<>> THEN s
    ELSE IF Head(s) = " " THEN Trim(Tail(s))
    ELSE IF s[Len(s)] = " " THEN Trim(SubSeq(s, 1, Len(s) - 1))
    ELSE s

\* shlex::split: the words between spaces, a quoted part of a word keeping
\* its spaces; None when a quote is left open.
RECURSIVE Shlex(_, _, _, _, _)
Shlex(s, cur, inWord, quoted, acc) ==
    IF s = <<>>
    THEN IF quoted THEN None
         ELSE Some(IF inWord THEN Append(acc, cur) ELSE acc)
    ELSE IF Head(s) = "'"
    THEN Shlex(Tail(s), cur, TRUE, ~quoted, acc)
    ELSE IF Head(s) = " " /\ ~quoted
    THEN IF inWord THEN Shlex(Tail(s), <<>>, FALSE, FALSE, Append(acc, cur))
         ELSE Shlex(Tail(s), cur, FALSE, FALSE, acc)
    ELSE Shlex(Tail(s), Append(cur, Head(s)), TRUE, quoted, acc)

ShlexSplit(s) == Shlex(s, <<>>, FALSE, FALSE, <<>>)

\* The assertion pushed for a `$` line.
Assertion(command, args) ==
    [command |-> command, args |-> args, expected |-> <<>>, exit |-> "Success"]

\* The expected output after a line was pushed without its line feed.
ExpectedAfterUnterminated(expected, line) == expected \o line

\* test.expected.push_str(line); test.expected.push('\n').
ExpectedAfter(expected, line) == (expected \o line) \o <<"\n">>

\* The exit status after a line, were it set anew by each line.
ExitAfterLastLine(exit, line) ==
    IF StartsWith(line, ERROR_PREFIX) THEN "Failure" ELSE "Success"

\* if line.starts_with(ERROR_PREFIX) { test.exit = ExitStatus::Failure }.
ExitAfter(exit, line) ==
    IF StartsWith(line, ERROR_PREFIX) THEN "Failure" ELSE exit

\* A closing fence that pushes a copy of the test and keeps building it.
ReadFenceKeepsTest(line) ==
    /\ StartsWith(line, Fence)
    /\ tests' = IF fenced THEN Append(tests, test) ELSE tests
    /\ test' = test
    /\ fenced' = ~fenced
    /\ UNCHANGED readRes

\* The body of the loop of read for a line that is a fence.
ReadFence(line) ==
    /\ StartsWith(line, Fence)
    /\ tests' = IF fenced THEN Append(tests, test) ELSE tests
    /\ test' = IF fenced THEN TestDefault ELSE test
    /\ fenced' = ~fenced
    /\ UNCHANGED readRes

\* The body of the loop for a `$` line of a fenced block.
ReadCommand(line) ==
    /\ ~StartsWith(line, Fence) /\ fenced
    /\ StripPrefix(line, <<"$">>) # None
    /\ \E parts \in {ShlexSplit(Trim(StripPrefix(line, <<"$">>)[1]))} :
          IF parts = None \/ parts = Some(<<>>)
          THEN /\ readRes' = "Parse"
               /\ UNCHANGED test
          ELSE /\ test' = [test EXCEPT !.assertions =
                              Append(@, Assertion(Head(parts[1]), Tail(parts[1])))]
               /\ UNCHANGED readRes
    /\ UNCHANGED <<fenced, tests>>

\* The body of the loop for another line of a fenced block.
ReadOutput(line) ==
    /\ ~StartsWith(line, Fence) /\ fenced
    /\ StripPrefix(line, <<"$">>) = None
    /\ IF test.assertions # <<>>
       THEN /\ test' = [test EXCEPT !.assertions[Len(test.assertions)] =
                           [@ EXCEPT !.exit = ExitAfter(@, line),
                                     !.expected = ExpectedAfter(@, line)]]
            /\ UNCHANGED readRes
       ELSE /\ readRes' = "Parse"
            /\ UNCHANGED test
    /\ UNCHANGED <<fenced, tests>>

\* The body of the loop for a line outside the fenced blocks.
ReadContext(line) ==
    /\ ~StartsWith(line, Fence) /\ ~fenced
    /\ test' = [test EXCEPT !.context = Append(@, line)]
    /\ UNCHANGED <<fenced, tests, readRes>>

\* One turn of the loop of read: the next line of the file is read.
ReadNext(line) ==
    /\ readRes = "Reading"
    /\ Len(input) < MaxInput
    /\ input' = Append(input, line)
    /\ \/ ReadFence(line)
       \/ ReadCommand(line)
       \/ ReadOutput(line)
       \/ ReadContext(line)
    /\ UNCHANGED <<applyVars, syncVars, nodeVars, cloneVars>>

\* The end of the file: read returns Ok.
ReadEnd ==
    /\ readRes = "Reading"
    /\ readRes' = "Ok"
    /\ UNCHANGED <<input, test, fenced, tests>>
    /\ UNCHANGED <<applyVars, syncVars, nodeVars, cloneVars>>

NextRead ==
    \/ \E line \in Lines : ReadNext(line)
    \/ ReadEnd

SpecRead == Init /\ [][NextRead]_vars

----------------------------------------------------------------------------
(* rad clone (crate radicle-cli, commands/clone.rs) *)

\* Number of arguments on the command line.
MaxArgs == 3

\* The arguments: the options, a repository id with and without its scheme,
\* and a value that is no repository id.
Argv ==
    {"--no-confirm", "--no-announce", "--announce", "--help",
     "rad:z3gqcJUoA1n9HaHKufZs5FCSGazv5",
     "rad://rad:z3gqcJUoA1n9HaHKufZs5FCSGazv5", "heartwood"}

\* val.strip_prefix("rad://").unwrap_or(&val), then Id::from_str.
IdFromStr(val) ==
    IF val \in {"rad:z3gqcJUoA1n9HaHKufZs5FCSGazv5",
                "rad://rad:z3gqcJUoA1n9HaHKufZs5FCSGazv5"}
    THEN Some("rad:z3gqcJUoA1n9HaHKufZs5FCSGazv5")
    ELSE None

\* The loop of Options::from_args over the arguments left.
RECURSIVE ParseArgs(_, _)
ParseArgs(args, o) ==
    IF args = <<>>
    THEN IF o.id = None THEN [o EXCEPT !.kind = "Err"]
         ELSE [o EXCEPT !.kind = "Ok"]
    ELSE CASE Head(args) = "--no-confirm" ->
                ParseArgs(Tail(args), [o EXCEPT !.interactive = FALSE])
           [] Head(args) = "--no-announce" ->
                ParseArgs(Tail(args), [o EXCEPT !.announce = FALSE])
           [] Head(args) = "--announce" ->
                ParseArgs(Tail(args), [o EXCEPT !.announce = TRUE])
           [] Head(args) = "--help" -> [o EXCEPT !.kind = "Help"]
           [] OTHER ->
                IF o.id = None /\ IdFromStr(Head(args)) # None
                THEN ParseArgs(Tail(args), [o EXCEPT !.id = IdFromStr(Head(args))])
                ELSE [o EXCEPT !.kind = "Err"]

\* Options::from_args.
FromArgs(args) == ParseArgs(args, Unparsed)

\* A call, and whether it succeeded.
Called(name, ok) == [name |-> name, ok |-> ok]

\* The step after the fork, were the fork always announced.
AfterForkAlways(announce) == "announce"

\* The step after the fork: the announcement, unless --no-announce was given.
AfterFork(announce) == IF announce THEN "announce" ELSE "doc"

\* The arguments are parsed; the command ends there when they do not parse.
CloneArgs(args) ==
    /\ pc = "args"
    /\ argv' = args
    /\ opts' = FromArgs(args)
    /\ IF FromArgs(args).kind = "Ok"
       THEN pc' = "track" /\ out' = out
       ELSE pc' = "exit" /\ out' = "Err(" \o FromArgs(args).kind \o ")"
    /\ UNCHANGED <<results, calls>>
    /\ UNCHANGED <<applyVars, syncVars, nodeVars, readVars>>

\* node.track_repo(id, Scope::default())?
CloneTrackRepo(ok) ==
    /\ pc = "track"
    /\ calls' = Append(calls, Called("track_repo", ok))
    /\ IF ok THEN pc' = "fetch" /\ out' = out
       ELSE pc' = "exit" /\ out' = "Err(Node)"
    /\ UNCHANGED <<argv, opts, results>>
    /\ UNCHANGED <<applyVars, syncVars, nodeVars, readVars>>

\* fetch::fetch(id, node)?: an error, or results that are empty, have a
\* success, or have failures only.
CloneFetch(fetched) ==
    /\ pc = "fetch"
    /\ calls' = Append(calls, Called("fetch", fetched # "error"))
    /\ IF fetched # "error"
       THEN pc' = "repository" /\ results' = fetched /\ out' = out
       ELSE pc' = "exit" /\ results' = results /\ out' = "Err(Node)"
    /\ UNCHANGED <<argv, opts>>
    /\ UNCHANGED <<applyVars, syncVars, nodeVars, readVars>>

\* A repository step that reports NotFound whatever the fetch results are.
CloneRepositoryNotFound(found, forked) ==
    /\ pc = "repository"
    /\ IF ~found
       THEN /\ pc' = "exit"
            /\ out' = "Err(NotFound)"
       ELSE /\ pc' = IF forked THEN "doc" ELSE "fork"
            /\ out' = out
    /\ UNCHANGED <<argv, opts, results, calls>>
    /\ UNCHANGED <<applyVars, syncVars, nodeVars, readVars>>

\* storage.repository(id), and repository.remote(signer.public_key()).
CloneRepository(found, forked) ==
    /\ pc = "repository"
    /\ IF ~found
       THEN /\ pc' = "exit"
            /\ out' = IF results = "empty" THEN "Err(NoSeeds)" ELSE "Err(NotFound)"
       ELSE /\ pc' = IF forked THEN "doc" ELSE "fork"
            /\ out' = out
    /\ UNCHANGED <<argv, opts, results, calls>>
    /\ UNCHANGED <<applyVars, syncVars, nodeVars, readVars>>

\* rad::fork(id, signer, &storage)?
CloneFork(ok) ==
    /\ pc = "fork"
    /\ calls' = Append(calls, Called("fork", ok))
    /\ IF ok THEN pc' = AfterFork(opts.announce) /\ out' = out
       ELSE pc' = "exit" /\ out' = "Err(Fork)"
    /\ UNCHANGED <<argv, opts, results>>
    /\ UNCHANGED <<applyVars, syncVars, nodeVars, readVars>>

\* An announcement whose error is returned with `?`.
CloneAnnounceAborts(ok) ==
    /\ pc = "announce"
    /\ calls' = Append(calls, Called("announce_refs", ok))
    /\ IF ok THEN pc' = "doc" /\ out' = out
       ELSE pc' = "exit" /\ out' = "Err(Node)"
    /\ UNCHANGED <<argv, opts, results>>
    /\ UNCHANGED <<applyVars, syncVars, nodeVars, readVars>>

\* node.announce_refs(id): its error is shown, and the clone goes on.
CloneAnnounce(ok) ==
    /\ pc = "announce"
    /\ calls' = Append(calls, Called("announce_refs", ok))
    /\ pc' = "doc"
    /\ UNCHANGED <<argv, opts, results, out>>
    /\ UNCHANGED <<applyVars, syncVars, nodeVars, readVars>>

\* repository.identity_doc_of(&me)? and doc.project()?
CloneDoc(ok) ==
    /\ pc = "doc"
    /\ IF ok THEN pc' = "checkout" /\ out' = out
       ELSE pc' = "exit" /\ out' = "Err(Doc)"
    /\ UNCHANGED <<argv, opts, results, calls>>
    /\ UNCHANGED <<applyVars, syncVars, nodeVars, readVars>>

\* rad::checkout(id, &me, path, &storage)?
CloneCheckout(ok) ==
    /\ pc = "checkout"
    /\ calls' = Append(calls, Called("checkout", ok))
    /\ pc' = "exit"
    /\ out' = IF ok THEN "Ok" ELSE "Err(Checkout)"
    /\ UNCHANGED <<argv, opts, results>>
    /\ UNCHANGED <<applyVars, syncVars, nodeVars, readVars>>

\* The argument lists of at most MaxArgs arguments.
ArgLists == UNION {[1..n -> Argv] : n \in 0..MaxArgs}

NextClone ==
    \/ \E args \in ArgLists : CloneArgs(args)
    \/ \E ok \in BOOLEAN : CloneTrackRepo(ok)
    \/ \E fetched \in {"error", "empty", "success", "failed"} : CloneFetch(fetched)
    \/ \E found, forked \in BOOLEAN : CloneRepository(found, forked)
    \/ \E ok \in BOOLEAN : CloneFork(ok)
    \/ \E ok \in BOOLEAN : CloneAnnounce(ok)
    \/ \E ok \in BOOLEAN : CloneDoc(ok)
    \/ \E ok \in BOOLEAN : CloneCheckout(ok)

SpecClone == Init /\ [][NextClone]_vars

----------------------------------------------------------------------------
(* Properties of Patch::apply *)

Range(q) == {q[i] : i \in DOMAIN q}

\* The orderings of a finite set of operations.
Orderings(S) ==
    {q \in [1..Cardinality(S) -> S] : Range(q) = S}

IsRevision(op) == op.action.type = "Revision"
NamesRevision(op) == op.action.type \in {"Redact", "Review", "Merge", "Thread"}
OnPresent(op) == op.action.type \in {"Review", "Merge", "Thread"}

\* C1: convergence.  Every ordering of the operations applied so far that
\* applies without error from Patch::default() yields the patch state the
\* behaviour reached, so any two such orderings yield equal states.
Convergence ==
    clean =>
        \A q \in Orderings(seen) :
            LET r == Apply(PatchDefault, q) IN r.res = Ok => r.patch = patch

\* Three operations were applied; at least two of their orderings apply
\* without error and at least one does not.
ConvergenceWitness ==
    /\ clean
    /\ Cardinality(seen) = 3
    /\ Cardinality({q \in Orderings(seen) : Apply(PatchDefault, q).res = Ok}) >= 2
    /\ \E q \in Orderings(seen) : Apply(PatchDefault, q).res # Ok

\* C3: idempotence.  Every ordering `ops` of the operations applied so far
\* that applies without error from Patch::default() also applies without error
\* as `ops ++ ops`, with the same resulting state.
Idempotence ==
    clean =>
        \A q \in Orderings(seen) :
            LET r == Apply(PatchDefault, q) IN
            r.res = Ok => Apply(PatchDefault, q \o q) = r

\* C4: a Redact, Review, Merge or Thread operation naming a revision id that
\* is not a key of the revisions map returns Missing(revision) and creates no
\* revision; this holds of the call just made and of any call that could be
\* made in the current state.
MissingDependency ==
    /\ \A op \in RedactOps \cup ReviewOps \cup MergeOps \cup ThreadOps :
          op.action.revision \notin DOMAIN patch.revisions =>
              LET r == Apply(patch, <<op>>) IN
              /\ r.res = Missing(op.action.revision)
              /\ DOMAIN r.patch.revisions = DOMAIN patch.revisions
    /\ (last # None /\ NamesRevision(last[1]) /\ res = Ok) =>
          last[1].action.revision \in DOMAIN patch.revisions

\* The last call applied an operation naming a revision that is no key, and
\* returned Missing.
MissingDependencyWitness ==
    /\ last # None
    /\ NamesRevision(last[1])
    /\ last[1].action.revision \notin DOMAIN patch.revisions
    /\ res = Missing(last[1].action.revision)

\* C5: apply returns Missing(e) only if no Revision operation with id e has
\* been applied to the state.
MissingOnlyWhenAbsent ==
    res.kind = "Missing" => ~\E op \in seen : IsRevision(op) /\ op.id = res.id

\* C6: once Redact(r) has been applied, revisions() does not yield r, and every
\* Review, Merge or Thread operation naming r fails to apply, in every later
\* state.
RedactedRevisionRejects ==
    \A x \in seen :
        x.action.type = "Redact" =>
            /\ x.action.revision \notin Range(Revisions(patch))
            /\ \A op \in ReviewOps \cup MergeOps \cup ThreadOps :
                  op.action.revision = x.action.revision =>
                      Apply(patch, <<op>>).res # Ok
            /\ (last # None /\ OnPresent(last[1])
                /\ last[1].action.revision = x.action.revision) => res # Ok

\* A Review, Merge or Thread operation was applied to a revision that had been
\* present and was redacted, and failed.
RedactedRevisionRejectsWitness ==
    /\ last # None
    /\ OnPresent(last[1])
    /\ res # Ok
    /\ \E x \in seen : x.action.type = "Redact"
                       /\ x.action.revision = last[1].action.revision
    /\ \E x \in seen : IsRevision(x) /\ x.id = last[1].action.revision

\* C7: redaction is irreversible.  A slot that is Redacted is Redacted after
\* every call of apply, also one that applies the Revision operation again.
RedactionIrreversible ==
    [][\A r \in DOMAIN patch.revisions :
          patch.revisions[r] = Redacted =>
              r \in DOMAIN patch'.revisions /\ patch'.revisions[r] = Redacted]_vars

\* The Revision operation of a redacted revision was just applied again.
RedactionIrreversibleWitness ==
    /\ last # None
    /\ IsRevision(last[1])
    /\ last[1].id \in DOMAIN patch.revisions
    /\ patch.revisions[last[1].id] = Redacted

\* C8: revision reinsertion is a no-op.  Applying the Revision operation of a
\* revision whose id is a key of the map leaves the patch unchanged, and
\* apply([R, X, R]) = apply([R, R, X]) for X a Redact or a Merge of R.
RevisionReinsertNoop ==
    /\ \A op \in RevisionOps :
          op.id \in DOMAIN patch.revisions =>
              Apply(patch, <<op>>) = [patch |-> patch, res |-> Ok]
    /\ \A R \in RevisionOps, X \in RedactOps \cup MergeOps :
          X.action.revision = R.id =>
              Apply(PatchDefault, <<R, X, R>>) = Apply(PatchDefault, <<R, R, X>>)

\* The Revision operation of a revision that has a merge was just applied again.
RevisionReinsertNoopWitness ==
    /\ last # None
    /\ IsRevision(last[1])
    /\ last[1].id \in DOMAIN patch.revisions
    /\ IsPresent(patch.revisions[last[1].id])
    /\ LWWSetElems(patch.revisions[last[1].id].rev.merges) # {}

\* The review of author a on revision r of patch p, None when there is none.
ReviewOf(p, r, a) ==
    IF r \in DOMAIN p.revisions /\ IsPresent(p.revisions[r])
       /\ a \in DOMAIN p.revisions[r].rev.reviews
    THEN Some(p.revisions[r].rev.reviews[a])
    ELSE None

\* C9: verdict monotonicity.  Across every call of apply that keeps a review,
\* a verdict Some(Reject) stays Some(Reject), a verdict that is Some stays
\* Some, and a Review operation with verdict None leaves the verdict as it was.
VerdictMonotone ==
    [][\A r \in RevisionIds, a \in Authors :
          (ReviewOf(patch, r, a) # None /\ ReviewOf(patch', r, a) # None) =>
              LET v == ReviewVerdict(ReviewOf(patch, r, a)[1])
                  w == ReviewVerdict(ReviewOf(patch', r, a)[1])
              IN  /\ v = Some("Reject") => w = Some("Reject")
                  /\ v # None => w # None
                  /\ (last'[1].action.type = "Review"
                      /\ last'[1].action.verdict = None) => w = v]_vars

\* A Review with verdict Accept was just applied to a review whose verdict is
\* Reject.
VerdictMonotoneWitness ==
    /\ last # None
    /\ res = Ok
    /\ last[1].action.type = "Review"
    /\ last[1].action.verdict = Some("Accept")
    /\ ReviewOf(patch, last[1].action.revision, last[1].author) # None
    /\ ReviewVerdict(ReviewOf(patch, last[1].action.revision, last[1].author)[1])
         = Some("Reject")

\* C10: review comment overwrite.  After a Review operation that supplies
\* Some(comment) is applied, the comment of that author's review is that
\* comment.
ReviewCommentOverwrite ==
    (last # None /\ res = Ok /\ last[1].action.type = "Review"
     /\ last[1].action.comment # None) =>
        ReviewComment(ReviewOf(patch, last[1].action.revision, last[1].author)[1])
            = last[1].action.comment

----------------------------------------------------------------------------
(* Properties of concurrent transactions *)

\* The history is a root followed by one entry of each node, both committed
\* on the root alone: two transactions made from the same folded state.
TwoConcurrent(E) ==
    /\ Cardinality(E) = 3
    /\ \E root \in E, a \in E, b \in E :
        /\ root.parents = {}
        /\ a.parents = {root.id} /\ b.parents = {root.id}
        /\ a.author # b.author

\* C2: cross-node convergence.  When two authors each commit a transaction on
\* the same folded state, each succeeding locally, and the entries have been
\* exchanged, the fold of the combined history succeeds on both nodes and
\* yields equal states.
CrossNodeConvergence ==
    (/\ entries["alice"] = entries["bob"]
     /\ TwoConcurrent(entries["alice"])
     /\ \A n \in Nodes : txres[n] = Ok) =>
        /\ \A n \in Nodes : Fold(entries[n]).res = Ok
        /\ Fold(entries["alice"]).patch = Fold(entries["bob"]).patch

----------------------------------------------------------------------------
(* Properties of a created patch *)

\* C11: after a patch is created, the patch of every handle has at least one
\* non-redacted revision: revisions() is not empty, so head(), timestamp() and
\* author() find a revision.
AtLeastOneRevision ==
    \A n \in Nodes : handle[n].open => Revisions(handle[n].patch) # <<>>

\* C12: in every patch with at least one revision, version() is the number of
\* non-redacted revisions less one.
VersionCountsPresent ==
    \A n \in Nodes :
        (handle[n].open /\ Revisions(handle[n].patch) # <<>>) =>
            Version(handle[n].patch) = Len(Revisions(handle[n].patch)) - 1

\* C13: Patches::create returns a handle whose clock is 1 and whose patch has
\* exactly one revision, keyed by the object id (the id of the root entry),
\* with the given base and oid, an empty description and the signer as author;
\* title, description and target are the arguments, the state is Proposed and
\* the version is 0.
CreateReturns ==
    [][\A n \in Nodes :
          (entries[n] = {} /\ ~handle[n].open /\ handle'[n].open) =>
              \E e \in entries'[n] :
                  LET p == handle'[n].patch IN
                  /\ entries'[n] = {e}
                  /\ txres'[n] = Ok
                  /\ handle'[n].clock = 1
                  /\ DOMAIN p.revisions = {e.id}
                  /\ Revisions(p) = <<e.id>>
                  /\ p.revisions[e.id].rev.base = e.actions[1].base
                  /\ p.revisions[e.id].rev.oid = e.actions[1].oid
                  /\ p.revisions[e.id].rev.description.value = EmptyString
                  /\ p.revisions[e.id].rev.author = n
                  /\ Title(p) = e.actions[2].title
                  /\ Description(p) = e.actions[2].description
                  /\ Target(p) = e.actions[2].target
                  /\ State(p) = Proposed
                  /\ Version(p) = 0]_vars

\* A patch was just created with a title and an oid that differ from the
\* defaults and from the base.
CreateReturnsWitness ==
    \E n \in Nodes :
        /\ handle[n].open
        /\ handle[n].clock = 1
        /\ \E e \in entries[n] :
            /\ entries[n] = {e}
            /\ e.author = n
            /\ e.actions[2].title = 2
            /\ e.actions[1].oid = 2

\* The entries that a step adds to the store of node n and that n wrote: one
\* entry in a step of PatchMut::transaction, none in any other step.
Committed(n) == {e \in entries'[n] \ entries[n] : e.author = n}

\* C14: clock monotonicity per handle.  Across every transaction on a handle
\* the handle's clock does not decrease, a successful transaction advances it
\* by one tick, and the committed operations carry a clock strictly greater
\* than the operations of every transaction the node committed earlier.
ClockMonotonePerHandle ==
    [][\A n \in Nodes :
          (handle[n].open /\ Committed(n) # {}) =>
              /\ handle'[n].clock >= handle[n].clock
              /\ txres'[n] = Ok => handle'[n].clock = handle[n].clock + 1
              /\ \A e \in Committed(n), o \in entries[n] :
                    o.author = n => e.clock > o.clock]_vars

\* C15: PatchMut::update adds exactly one revision.  revisions().count() and
\* version() grow by one, latest() is the new revision, with the description
\* and the oid given (head() is the oid), and every earlier revision is as it
\* was.
UpdateAddsRevision ==
    [][\A n \in Nodes : \A e \in Committed(n) :
          (handle[n].open /\ e.actions[1].type = "Revision") =>
              LET p == handle[n].patch
                  q == handle'[n].patch
              IN  /\ txres'[n] = Ok
                  /\ Len(Revisions(q)) = Len(Revisions(p)) + 1
                  /\ Version(q) = Version(p) + 1
                  /\ Latest(q) = Some(e.id)
                  /\ q.revisions[e.id].rev.description.value
                        = e.actions[1].description
                  /\ q.revisions[e.id].rev.oid = e.actions[1].oid
                  /\ PatchHead(q) = e.actions[1].oid
                  /\ \A r \in DOMAIN p.revisions :
                        r \in DOMAIN q.revisions /\ q.revisions[r] = p.revisions[r]]_vars

\* The patch of a handle has two revisions: the first has a review or a merge,
\* the latest is the one the node committed last, with an oid that is not its
\* base.
UpdateAddsRevisionWitness ==
    \E n \in Nodes :
        /\ handle[n].open
        /\ txres[n] = Ok
        /\ Len(Revisions(handle[n].patch)) = 2
        /\ LET first == handle[n].patch.revisions[Revisions(handle[n].patch)[1]].rev
               new == handle[n].patch.revisions[Latest(handle[n].patch)[1]].rev
           IN  /\ DOMAIN first.reviews # {} \/ LWWSetElems(first.merges) # {}
               /\ new.oid # new.base
               /\ \E e \in entries[n] :
                     /\ e.id = Latest(handle[n].patch)[1]
                     /\ e.author = n
                     /\ e.clock = handle[n].clock

\* C16: PatchMut::merge on a present revision adds to its merges a Merge with
\* the signer as node and the commit given (a first merge leaves exactly one
\* element), and changes nothing in the patch but these merges and the
\* timeline.
MergeAddsMerge ==
    [][\A n \in Nodes : \A e \in Committed(n) :
          (/\ handle[n].open
           /\ e.actions[1].type = "Merge"
           /\ e.actions[1].revision \in DOMAIN handle[n].patch.revisions
           /\ IsPresent(handle[n].patch.revisions[e.actions[1].revision])) =>
              LET p == handle[n].patch
                  q == handle'[n].patch
                  r == e.actions[1].revision
                  before == LWWSetElems(p.revisions[r].rev.merges)
                  after == LWWSetElems(q.revisions[r].rev.merges)
              IN  /\ txres'[n] = Ok
                  /\ after = before \cup {[node |-> n,
                                           commit |-> e.actions[1].commit,
                                           timestamp |-> e.timestamp]}
                  /\ before = {} => Cardinality(after) = 1
                  /\ q = [p EXCEPT !.timeline = q.timeline,
                                   !.revisions[r].rev.merges =
                                       q.revisions[r].rev.merges]]_vars

\* The patch of a handle has two present revisions; the node's last
\* transaction merged one of them, which has exactly one merge, and the other
\* has none.
MergeAddsMergeWitness ==
    \E n \in Nodes :
        /\ handle[n].open
        /\ txres[n] = Ok
        /\ Len(Revisions(handle[n].patch)) = 2
        /\ \E e \in entries[n] :
            /\ e.author = n
            /\ e.clock = handle[n].clock
            /\ e.actions[1].type = "Merge"
            /\ \A r \in DOMAIN handle[n].patch.revisions :
                  Cardinality(LWWSetElems(handle[n].patch.revisions[r].rev.merges))
                      = IF r = e.actions[1].revision THEN 1 ELSE 0

----------------------------------------------------------------------------
(* Properties of Patch::merge *)

\* The patch values at hand: the patches of the open handles.
PatchValues == {handle[n].patch : n \in {m \in Nodes : handle[m].open}}

\* C17: Patch::merge is commutative, associative and idempotent on patch
\* values reached by apply, compared field by field, timeline included.
PatchMergeLaws ==
    \A a \in PatchValues, b \in PatchValues, c \in PatchValues :
        /\ PatchMerge(a, b) = PatchMerge(b, a)
        /\ PatchMerge(PatchMerge(a, b), c) = PatchMerge(a, PatchMerge(b, c))
        /\ PatchMerge(a, a) = a

----------------------------------------------------------------------------
(* Properties of the node handle *)

\* The methods that read a command result, and those of them that return bool.
ResultMethods ==
    {"connect", "track-repo", "track-node", "untrack-repo", "untrack-node",
     "announce-refs", "announce-inventory", "sync-inventory"}
BoolMethods ==
    {"track-repo", "track-node", "untrack-repo", "untrack-node", "sync-inventory"}

\* C18: a method whose connection the daemon closed without writing a line
\* returns EmptyResponse with the command that was sent.
EmptyResponseOnEof ==
    (/\ call \in ResultMethods \cup {"seeds", "fetch"}
     /\ ret # Running /\ closed /\ wire = <<>>) => ret = EmptyResponse(call)

\* C19: a method that reads a command result returns Err(Node(r)) when the
\* daemon replied with an error result of reason r, never Ok; when the daemon
\* replied ok it returns Ok, with the `updated` flag of the reply for the
\* methods that return bool.
CommandResultReturned ==
    (call \in ResultMethods /\ ret # Running /\ sent # <<>>) =>
        /\ sent[1].variant = "Error" => ret = NodeErr(sent[1].reason)
        /\ (/\ call \in {"announce-refs", "announce-inventory"}
            /\ \E i \in DOMAIN sent : sent[i].variant = "Error") => ret.kind # "Ok"
        /\ (~failed /\ \A i \in DOMAIN sent : sent[i].variant = "Okay") =>
              ret = RetOk(IF call \in BoolMethods THEN Bool(sent[1].updated)
                          ELSE Unit)

\* C20: CommandResult::to_writer emits one line, ended by a line feed, whose
\* JSON is {"status":"ok"} for ok(), {"status":"ok","updated":true} for
\* updated(), and {"status":"error","reason":r} for an error of reason r.
ToWriterJson ==
    /\ ~failed => Len(wire) = 2 * Len(sent)
    /\ \A i \in DOMAIN sent :
          sent[i].variant \in {"Okay", "Error"} =>
              /\ wire[2 * i] = LF
              /\ wire[2 * i - 1] =
                    IF sent[i] = CommandResultOk THEN "{\"status\":\"ok\"}"
                    ELSE IF sent[i] = CommandResultUpdated
                    THEN "{\"status\":\"ok\",\"updated\":true}"
                    ELSE "{\"status\":\"error\",\"reason\":\""
                         \o sent[i].reason \o "\"}"

\* The type each method of the handle reads its responses as.
TypeOf(cmd) ==
    CASE cmd = "seeds" -> "Seeds"
      [] cmd = "fetch" -> "FetchResult"
      [] OTHER         -> "CommandResult"

\* The texts of the lines the daemon has written in full.
RECURSIVE CompleteLines(_, _)
CompleteLines(w, cur) ==
    IF w = <<>> THEN <<>>
    ELSE IF Head(w) = LF THEN <<cur>> \o CompleteLines(Tail(w), "")
    ELSE CompleteLines(Tail(w), cur \o Head(w))

\* C21: JSON round trip.  Deserializing the serialization of a command
\* result or of a command yields the value again, Okay { updated: false },
\* whose field is left out on the wire, included; so the command written on
\* the connection reads back as the command of the call, and each command
\* result the daemon wrote reads back as the result it wrote.
JsonRoundTrip ==
    /\ \A v \in {Okay(TRUE), Okay(FALSE)} \cup {ResultError(r) : r \in Reasons} :
          CommandResultFromStr(CommandResultToJson(v)) = Some(v)
    /\ \A c \in Commands : CommandFromStr(CommandToJson(c)) = Some(c)
    /\ request # <<>> =>
          /\ Len(request) = 2 /\ request[2] = LF
          /\ CommandFromStr(request[1]) # None
          /\ CommandNameToString(CommandFromStr(request[1])[1].name) = call
          /\ CommandToWriter(CommandFromStr(request[1])[1]) = request
    /\ \A i \in DOMAIN sent :
          sent[i].variant \in {"Okay", "Error"} =>
              CommandResultFromStr(CompleteLines(wire, "")[i]) = Some(sent[i])

\* The daemon wrote Okay { updated: false } and then an error result, in
\* reply to a command with two arguments.
JsonRoundTripWitness ==
    /\ Len(sent) = 2 /\ sent[1] = Okay(FALSE) /\ sent[2].variant = "Error"
    /\ wire[1] = "{\"status\":\"ok\"}"
    /\ call = "track-node"
    /\ request = CommandToWriter(Command(<<"track", "node">>, <<Nid, "eve">>))

\* C22: a line that is no JSON of the expected type is InvalidJson with the
\* command sent and the line as received: this is the item the iterator of
\* Node::call yields for it, and what a method of the handle returns, as an
\* Err, when it reads that line.
InvalidJsonReported ==
    LET lines == CompleteLines(wire, "") IN
    /\ \A i \in DOMAIN yielded :
          (i <= Len(lines) /\ FromStr("CommandResult", lines[i]) = None) =>
              /\ yielded[i].kind = "InvalidJson"
              /\ yielded[i].cmd = call /\ call = "shutdown"
              /\ yielded[i].text = lines[i]
    /\ (/\ call \in ResultMethods \cup {"seeds", "fetch"}
        /\ call \notin {"announce-refs", "announce-inventory"}
        /\ ret # Running /\ lines # <<>>
        /\ FromStr(TypeOf(call), lines[1]) = None) =>
            ret = InvalidJson(call, lines[1])
    /\ (/\ call \in {"announce-refs", "announce-inventory"}
        /\ ret # Running
        /\ \E i \in DOMAIN lines : FromStr("CommandResult", lines[i]) = None) =>
            LET first == CHOOSE i \in DOMAIN lines :
                           /\ FromStr("CommandResult", lines[i]) = None
                           /\ \A j \in 1..(i - 1) :
                                 FromStr("CommandResult", lines[j]) # None
            IN  ret = InvalidJson(call, lines[first])

\* track_node has read a line whose status tag is none of CommandResult.
InvalidJsonReportedWitness ==
    /\ call = "track-node" /\ ret.kind = "InvalidJson"
    /\ wire # <<>> /\ wire[1] = "{\"status\":\"success\",\"updated\":[]}"

\* C23: streaming.  The iterator of Node::call has read nothing before the
\* first call of next(); every line received in full is yielded, parsed, at
\* its place in the order received, also when the stream fails afterwards;
\* and the I/O error is the item that follows the last such line.
StreamingPartialResponse ==
    LET lines == CompleteLines(wire, "") IN
    /\ yielded = <<>> => consumed = 0
    /\ consumed <= Len(wire)
    /\ \A i \in DOMAIN yielded :
          /\ i <= Len(lines) =>
                /\ yielded[i].kind \in {"Ok", "InvalidJson"}
                /\ yielded[i].kind = "Ok" =>
                      yielded[i].value = CommandResultFromStr(lines[i])
                /\ yielded[i].kind = "InvalidJson" =>
                      /\ yielded[i].text = lines[i]
                      /\ CommandResultFromStr(lines[i]) = None
          /\ yielded[i].kind = "Io" => failed /\ i > Len(lines)
    /\ (failed /\ Len(yielded) > Len(lines)) =>
          yielded[Len(lines) + 1].kind = "Io"

\* Two lines were received in full and a third in part when the stream
\* failed; the iterator has yielded the two lines and then the error.
StreamingPartialResponseWitness ==
    /\ failed /\ Len(wire) = 5 /\ Len(sent) = 2
    /\ Len(yielded) = 3
    /\ yielded[1].kind = "Ok" /\ yielded[2].kind = "Ok"
    /\ yielded[3].kind = "Io"

\* The kebab-case name of each variant of CommandName.
KebabNames ==
    {<<<<"announce", "refs">>, "announce-refs">>,
     <<<<"announce", "inventory">>, "announce-inventory">>,
     <<<<"sync", "inventory">>, "sync-inventory">>,
     <<<<"connect">>, "connect">>,
     <<<<"seeds">>, "seeds">>,
     <<<<"fetch">>, "fetch">>,
     <<<<"track", "repo">>, "track-repo">>,
     <<<<"untrack", "repo">>, "untrack-repo">>,
     <<<<"track", "node">>, "track-node">>,
     <<<<"untrack", "node">>, "untrack-node">>,
     <<<<"status">>, "status">>,
     <<<<"shutdown">>, "shutdown">>}

\* C24: to_string() of each of the twelve variants of CommandName is its
\* kebab-case name, no two variants have the same, and it is the string
\* written as "cmd" in the command on the connection.
CommandNameDisplay ==
    /\ {p[1] : p \in KebabNames} = CommandNameVariants
    /\ Cardinality(CommandNameVariants) = 12
    /\ \A p \in KebabNames : CommandNameToString(p[1]) = p[2]
    /\ \A a, b \in CommandNameVariants :
          CommandNameToString(a) = CommandNameToString(b) => a = b
    /\ request # <<>> =>
          \E p \in KebabNames :
              /\ p[2] = call
              /\ \E args \in ArgsOf(p[2]) :
                    request[1] = "{\"cmd\":\"" \o p[2] \o "\",\"args\":["
                                     \o ArgsToJson(args) \o "]}"

\* The command of track_repo, with its two arguments, is on the connection.
CommandNameDisplayWitness ==
    /\ call = "track-repo"
    /\ request = <<"{\"cmd\":\"track-repo\",\"args\":[\"" \o Rid
                       \o "\",\"trusted\"]}", LF>>

----------------------------------------------------------------------------
(* Properties of TestFormula::read *)

\* The element of a set of numbers that has k - 1 elements below it.
Kth(S, k) == CHOOSE i \in S : Cardinality({j \in S : j < i}) = k - 1

\* The lines of the input that are fences; the lines inside a fenced block;
\* among these the `$` lines; and the output lines of a `$` line: the lines
\* that follow it up to the next `$` line or fence.
FenceLines == {i \in DOMAIN input : StartsWith(input[i], Fence)}
Inside(i) ==
    /\ i \notin FenceLines
    /\ Cardinality({f \in FenceLines : f < i}) % 2 = 1
DollarLines == {i \in DOMAIN input : Inside(i) /\ StartsWith(input[i], <<"$">>)}
OutputLines(d) ==
    {i \in DOMAIN input :
        i > d /\ \A j \in (d + 1)..i : Inside(j) /\ j \notin DollarLines}

\* The lines from..to of the input, each followed by a line feed, as one text.
RECURSIVE Joined(_, _)
Joined(from, to) ==
    IF from > to THEN <<>>
    ELSE (input[from] \o <<"\n">>) \o Joined(from + 1, to)

\* The first shell word and the other shell words of the command line.
WordsOf(line) == <<(<<"a">>), <<(<<"b", " ", "c">>)>>>>

\* C25: while read meets no parse error, self.tests holds one Test for each
\* fenced block closed so far, in the order of the input: its context is the
\* lines between the end of the block before and its opening fence, and its
\* assertions are its `$` lines in order, each with the first shell word as
\* command, the other words as args, and as expected output the lines that
\* follow it up to the next `$` line or the closing fence, blank lines
\* included, each followed by a line feed.
ReadParsesBlocks ==
    readRes # "Parse" =>
        /\ Len(tests) = Cardinality(FenceLines) \div 2
        /\ \A k \in DOMAIN tests :
              LET open == Kth(FenceLines, 2 * k - 1)
                  close == Kth(FenceLines, 2 * k)
                  before == IF k = 1 THEN 0 ELSE Kth(FenceLines, 2 * k - 2)
                  dollars == {d \in DollarLines : open < d /\ d < close}
              IN  /\ tests[k].context = SubSeq(input, before + 1, open - 1)
                  /\ Len(tests[k].assertions) = Cardinality(dollars)
                  /\ \A j \in DOMAIN tests[k].assertions :
                        LET d == Kth(dollars, j)
                            a == tests[k].assertions[j]
                        IN  /\ a.command = WordsOf(input[d])[1]
                            /\ a.args = WordsOf(input[d])[2]
                            /\ a.expected =
                                  Joined(d + 1, d + Cardinality(OutputLines(d)))

\* A file with balanced fences was read to its end: a block with a command
\* followed by a blank line, then a line of context, then an empty block.
ReadParsesBlocksWitness ==
    /\ readRes = "Ok" /\ ~fenced
    /\ Len(tests) = 2
    /\ Len(tests[1].assertions) = 1
    /\ tests[1].assertions[1].command = <<"a">>
    /\ tests[1].assertions[1].expected = <<"\n">>
    /\ tests[2].context = <<TextLine>>

\* Every assertion read so far: those of self.tests, then those of the test
\* being built.
RECURSIVE AssertionsOf(_)
AssertionsOf(ts) ==
    IF ts = <<>> THEN <<>>
    ELSE Head(ts).assertions \o AssertionsOf(Tail(ts))

Assertions == AssertionsOf(tests) \o test.assertions

\* C26: the exit expected of an assertion is Failure exactly when one of its
\* output lines, the lines between its `$` line and the next `$` line or
\* fence, begins with the error glyph; so an error line marks the last `$`
\* line before it and no other, and lines read later never reset the mark.
ExitFailureIffErrorLine ==
    readRes # "Parse" =>
        /\ Len(Assertions) = Cardinality(DollarLines)
        /\ \A j \in DOMAIN Assertions :
              Assertions[j].exit \in {"Success", "Failure"}
              /\ (Assertions[j].exit = "Failure" <=>
                    \E i \in OutputLines(Kth(DollarLines, j)) :
                        StartsWith(input[i], ERROR_PREFIX))

\* Two commands of one block: the first has no error line, the second has an
\* error line followed by a line of text.
ExitFailureIffErrorLineWitness ==
    /\ Len(test.assertions) = 2
    /\ test.assertions[1].exit = "Success"
    /\ test.assertions[2].exit = "Failure"
    /\ test.assertions[2].expected = <<"X", " ", "e", "\n", "o", "k", "\n">>

----------------------------------------------------------------------------
(* Properties of rad clone *)

\* The places of the calls of a name in the calls made so far.
CallsOf(name) == {i \in DOMAIN calls : calls[i].name = name}

\* The last of the options --announce and --no-announce on the command line
\* is --no-announce.
NoAnnounceGiven ==
    \E i \in DOMAIN argv :
        /\ argv[i] = "--no-announce"
        /\ \A j \in (i + 1)..Len(argv) : argv[j] # "--announce"

\* C27: announce_refs is called only when the clone announces and made a
\* fork.  With --no-announce no path calls it; otherwise it is called at most
\* once, right after a fork that succeeded, and before the checkout.
AnnounceOnlyAfterFork ==
    /\ Cardinality(CallsOf("announce_refs")) <= 1
    /\ (NoAnnounceGiven \/ ~opts.announce) => CallsOf("announce_refs") = {}
    /\ \A i \in CallsOf("announce_refs") :
          /\ opts.announce
          /\ i > 1 /\ calls[i - 1] = Called("fork", TRUE)
          /\ \A j \in CallsOf("checkout") : j > i

\* A clone that forked, announced the fork and made the checkout.
AnnounceOnlyAfterForkWitness ==
    /\ out = "Ok"
    /\ CallsOf("fork") # {} /\ CallsOf("announce_refs") # {}
    /\ CallsOf("checkout") # {}
    /\ "--announce" \in {argv[i] : i \in DOMAIN argv}

----------------------------------------------------------------------------
(* Properties of the accessors, of Edit and of Review *)

\* The Revision operation that creates a revision.
CreatorOf(id) == CHOOSE op \in RevisionOps : op.id = id

PresentRevisions(p) ==
    {id \in DOMAIN p.revisions : IsPresent(p.revisions[id])}

\* C28: revisions() yields the revisions whose slot is Present and no other,
\* each once, in the ascending order of the (clock, entry id) of the
\* operations that created them; latest() is the last of them and head() its
\* oid; a redacted revision is not yielded, and is still a key of the map.
RevisionsInTimelineOrder ==
    LET revs == Revisions(patch) IN
    /\ {revs[i] : i \in DOMAIN revs} = PresentRevisions(patch)
    /\ Len(revs) = Cardinality(PresentRevisions(patch))
    /\ \A i, j \in DOMAIN revs :
          i < j =>
              LET a == CreatorOf(revs[i])
                  b == CreatorOf(revs[j])
              IN  a.clock < b.clock \/ (a.clock = b.clock /\ a.id < b.id)
    /\ revs = <<>> => Latest(patch) = None
    /\ revs # <<>> =>
          /\ Latest(patch) = Some(revs[Len(revs)])
          /\ PatchHead(patch) = CreatorOf(revs[Len(revs)]).action.oid
    /\ DOMAIN patch.revisions = {op.id : op \in seen \cap RevisionOps}
    /\ DOMAIN patch.revisions \ PresentRevisions(patch) =
          {op.action.revision : op \in seen \cap RedactOps}

\* Three revisions, one of them redacted; of the two others the one with the
\* greater id was created at the lesser clock and comes first.
RevisionsInTimelineOrderWitness ==
    /\ Revisions(patch) = <<2, 1>>
    /\ DOMAIN patch.revisions = {1, 2, 3}
    /\ ~IsPresent(patch.revisions[3])
    /\ Version(patch) = 2

\* The Edit operations applied, and those of them with the greatest clock.
EditsApplied == {op \in seen : op.action.type = "Edit"}
LastEdits == {op \in EditsApplied : \A o \in EditsApplied : o.clock <= op.clock}

\* The greatest element of a non-empty set of numbers.
Greatest(S) == CHOOSE x \in S : \A y \in S : y <= x

\* C29: Edit is last-writer-wins by clock.  Once Edit operations were
\* applied, in whatever order, title, description and target are each the
\* greatest of the values of the Edit operations with the greatest clock:
\* those of that operation when there is one, every field on its own when
\* several share the clock.
EditLastWriterWins ==
    EditsApplied # {} =>
        /\ Title(patch) = Greatest({op.action.title : op \in LastEdits})
        /\ Description(patch) =
              Greatest({op.action.description : op \in LastEdits})
        /\ Target(patch) = Greatest({op.action.target : op \in LastEdits})
        /\ patch.title.clock = Greatest({op.clock : op \in EditsApplied})

\* Three Edit operations were applied: one at the lesser clock, and two at
\* the greater clock of which one has the greater title and the other the
\* greater description; the patch has the title of one and the description
\* of the other.
EditLastWriterWinsWitness ==
    /\ Cardinality(EditsApplied) = 3
    /\ Cardinality(LastEdits) = 2
    /\ \E a, b \in LastEdits :
          /\ a.action.title > b.action.title
          /\ a.action.description < b.action.description
          /\ Title(patch) = a.action.title
          /\ Description(patch) = b.action.description

\* The Review operations applied that name a revision, by an author.
ReviewsApplied(r, a) ==
    {op \in seen \cap ReviewOps : op.action.revision = r /\ op.author = a}

\* The reviews of a non-empty set of Review operations, merged.
RECURSIVE MergedReviews(_)
MergedReviews(S) ==
    LET op == CHOOSE o \in S : TRUE
        review == ReviewNew(op.action.verdict, op.action.comment,
                            op.action.inline, op.timestamp)
    IN  IF S = {op} THEN review
        ELSE ReviewMerge(MergedReviews(S \ {op}), review)

\* C30: the reviews of a present revision have one entry for each author who
\* reviewed that revision and none for another; the entry of an author is the
\* merge of the reviews of that author on that revision, so no review of
\* another author or on another revision changes it.
OneReviewPerAuthor ==
    \A r \in PresentRevisions(patch) :
        LET reviews == patch.revisions[r].rev.reviews IN
        /\ DOMAIN reviews = {a \in Authors : ReviewsApplied(r, a) # {}}
        /\ \A a \in DOMAIN reviews :
              reviews[a] = MergedReviews(ReviewsApplied(r, a))

\* A revision was reviewed twice by one author, with a verdict and then with
\* another, and once by the other author.
OneReviewPerAuthorWitness ==
    \E r \in PresentRevisions(patch) :
        /\ DOMAIN patch.revisions[r].rev.reviews = {"alice", "bob"}
        /\ Cardinality(ReviewsApplied(r, "alice")) = 2
        /\ {op.action.verdict : op \in ReviewsApplied(r, "alice")} =
              {Some("Accept"), Some("Reject")}
        /\ ReviewVerdict(patch.revisions[r].rev.reviews["alice"]) = Some("Reject")
        /\ ReviewVerdict(patch.revisions[r].rev.reviews["bob"]) = Some("Accept")

----------------------------------------------------------------------------
(* Properties of the state as a whole *)

\* C31: grow-only state.  Across every call of apply the timeline and the
\* set of keys of the revisions map keep every element they had, and a
\* revision that is Present has the author, base, oid and timestamp of the
\* Revision operation that created it.
GrowOnly ==
    [][/\ patch.timeline \subseteq patch'.timeline
       /\ DOMAIN patch.revisions \subseteq DOMAIN patch'.revisions
       /\ \A r \in PresentRevisions(patch') :
             LET rev == patch'.revisions[r].rev
                 op == CreatorOf(r)
             IN  /\ rev.author = op.author
                 /\ rev.base = op.action.base
                 /\ rev.oid = op.action.oid
                 /\ rev.timestamp = op.timestamp]_vars

\* A revision was redacted and is still a key; another revision, reviewed by
\* the author who did not create it, is present.
GrowOnlyWitness ==
    /\ \E r \in DOMAIN patch.revisions : ~IsPresent(patch.revisions[r])
    /\ \E r \in PresentRevisions(patch) :
          /\ patch.revisions[r].rev.author = "bob"
          /\ "alice" \in DOMAIN patch.revisions[r].rev.reviews
    /\ Cardinality(patch.timeline) = 4

\* C32: an apply that returns an error leaves the patch as it was before the
\* call: no timeline entry of the failing operation and no effect of earlier
\* operations of the same call is kept.
ApplyErrLeavesPatch == [][res' # Ok => patch' = patch]_vars

\* C33: a transaction persists an entry only when its actions apply.  In every
\* step of PatchMut::transaction on the handle of node n that returns an
\* error, the store of n holds no new entry and the handle's patch and clock
\* are the ones before the call.
FailedTransactionPersistsNothing ==
    [][\A n \in Nodes :
          (/\ handle[n].open
           /\ nextEntry' # nextEntry
           /\ txres'[n] # Ok
           /\ \A m \in Nodes \ {n} : entries'[m] = entries[m])
          => /\ entries'[n] = entries[n]
             /\ handle'[n] = handle[n]]_vars

\* The handle h agrees with the store E: its patch and clock are those of the
\* fold of the entries persisted for the object.
Agrees(h, E) ==
    \E f \in {Fold(E)} :
        /\ f.res = Ok
        /\ h.patch = f.patch
        /\ h.clock = f.clock

\* C34: handle/store agreement.  A handle returned by create or get_mut agrees
\* with the store, and a successful transaction on a handle that agrees with
\* the store leaves a handle that agrees with the store.
HandleStoreAgreement ==
    [][\A n \in Nodes :
          /\ (/\ handle'[n] # handle[n]
              /\ ~handle[n].open \/ entries'[n] = entries[n])
             => Agrees(handle'[n], entries'[n])
          /\ (/\ handle[n].open
              /\ Committed(n) # {}
              /\ txres'[n] = Ok
              /\ Agrees(handle[n], entries[n]))
             => Agrees(handle'[n], entries'[n])]_vars

\* A handle opened on a fetched history of two entries, one of them written by
\* the other node, has made a successful transaction and agrees with the
\* store.
HandleStoreAgreementWitness ==
    \E n \in Nodes :
        /\ handle[n].open
        /\ Cardinality(entries[n]) = 3
        /\ Cardinality({e \in entries[n] : e.author = n}) = 1
        /\ txres[n] = Ok
        /\ handle[n].clock = 3
        /\ Agrees(handle[n], entries[n])

----------------------------------------------------------------------------
(* Patches by lifecycle state *)

\* Patch::is_proposed and Patch::is_archived.
IsProposed(p) == p.state.value = Proposed

IsArchived(p) == p.state.value = Archived

\* Patches::all on the store of node n, with the unreadable objects filtered
\* out as counts() and proposed() do: the fold of each object that folds.
AllOk(n) ==
    IF entries[n] = {} THEN {}
    ELSE {f.patch : f \in {g \in {Fold(entries[n])} : g.res = Ok}}

\* Patches::counts.
Counts(n) ==
    [proposed |-> Cardinality({p \in AllOk(n) : State(p) = Proposed}),
     draft |-> Cardinality({p \in AllOk(n) : State(p) = Draft}),
     archived |-> Cardinality({p \in AllOk(n) : State(p) = Archived})]

\* Patches::proposed.
ProposedPatches(n) == {p \in AllOk(n) : IsProposed(p)}

\* C35: no action changes the lifecycle state.  Every patch built by apply,
\* and every merge of two of them, is Proposed and not archived; counts()
\* reports no draft and no archived patch, and proposed() returns every
\* readable patch.
AlwaysProposed ==
    /\ \A n \in Nodes :
          /\ State(handle[n].patch) = Proposed
          /\ IsProposed(handle[n].patch)
          /\ ~IsArchived(handle[n].patch)
          /\ \E all \in {AllOk(n)} :
                /\ \A p \in all : State(p) = Proposed
                /\ Counts(n) = [proposed |-> Cardinality(all), draft |-> 0,
                                archived |-> 0]
                /\ ProposedPatches(n) = all
    /\ \A n, m \in Nodes :
          \E q \in {PatchMerge(handle[n].patch, handle[m].patch)} :
              State(q) = Proposed /\ IsProposed(q) /\ ~IsArchived(q)

\* Both handles hold a patch that was edited after creation, one of them has
\* merged a revision, and the store of each node is readable.
AlwaysProposedWitness ==
    /\ \A n \in Nodes :
          /\ handle[n].open
          /\ Cardinality(handle[n].patch.timeline) >= 2
          /\ AllOk(n) # {}
    /\ \E n \in Nodes : \E r \in DOMAIN handle[n].patch.revisions :
          /\ IsPresent(handle[n].patch.revisions[r])
          /\ handle[n].patch.revisions[r].rev.merges # <<>>
    /\ handle["alice"].patch # handle["bob"].patch

----------------------------------------------------------------------------
(* Properties of TestFormula::read at the end of the input *)

\* The context lines of the tests of the formula, in order.
RECURSIVE ContextsOf(_)
ContextsOf(ts) ==
    IF ts = <<>> THEN <<>>
    ELSE Head(ts).context \o ContextsOf(Tail(ts))

\* The lines of the input outside the fenced blocks, fences excluded.
OutsideLines == {i \in DOMAIN input : i \notin FenceLines /\ ~Inside(i)}

\* C36: read loses no input.  When read returns Ok, every `$` line of a
\* fenced block is an assertion of a Test of the formula and every line
\* outside the fences is in the context of a Test of the formula, also when
\* the last fence is not closed or text follows the last block.
ReadLosesNoInput ==
    readRes = "Ok" =>
        /\ Len(AssertionsOf(tests)) = Cardinality(DollarLines)
        /\ Len(ContextsOf(tests)) = Cardinality(OutsideLines)
        /\ \A k \in DOMAIN ContextsOf(tests) :
              ContextsOf(tests)[k] = input[Kth(OutsideLines, k)]

\* The number of quote characters of a line.
RECURSIVE Quotes(_)
Quotes(line) ==
    IF line = <<>> THEN 0
    ELSE (IF Head(line) = "'" THEN 1 ELSE 0) + Quotes(Tail(line))

\* The fence that opened the block of a line inside a fenced block.
BlockStart(i) == Kth(FenceLines, Cardinality({f \in FenceLines : f < i}))

\* A line that read cannot parse: inside a fenced block, a line without `$`
\* with no `$` line before it in its block, or a `$` line that has no word
\* after the `$` or leaves a quote open.
Unparsable(i) ==
    /\ Inside(i)
    /\ IF StartsWith(input[i], <<"$">>)
       THEN \/ \A k \in 2..Len(input[i]) : input[i][k] = " "
            \/ Quotes(input[i]) % 2 = 1
       ELSE \A d \in DollarLines : d < BlockStart(i) \/ d > i

\* C37: read returns the parse error exactly at the first line it cannot
\* parse, and the first output line of a block is never attached to an
\* assertion of an earlier block: the test being built has no assertion
\* outside a block, and inside a block it has one per `$` line of that block.
ParseErrorExactly ==
    /\ {i \in DOMAIN input : Unparsable(i)} =
          (IF readRes = "Parse" THEN {Len(input)} ELSE {})
    /\ readRes = "Parse" => input # <<>>
    /\ Len(test.assertions) =
          (IF fenced
           THEN Cardinality({d \in DollarLines :
                               /\ d > Kth(FenceLines, Cardinality(FenceLines))
                               /\ ~Unparsable(d)})
           ELSE 0)

\* A block with a command was closed, and read stopped at the first line of
\* the next block, an output line.
ParseErrorExactlyWitness ==
    /\ readRes = "Parse"
    /\ Len(tests) = 1
    /\ tests[1].assertions # <<>>
    /\ input[Len(input)] = TextLine
    /\ input[Len(input) - 1] = Fence

----------------------------------------------------------------------------
(* Properties of the errors of clone *)

\* C38: when the repository is not in storage after the fetch, clone returns
\* NoSeeds if the fetch gave no result and NotFound if it gave one, and it
\* made no fork, announcement or checkout; the only calls before it are
\* track_repo and then fetch, and a track_repo that fails ends the clone
\* before any fetch.
NotInStorageAfterFetch ==
    [][/\ (pc = "repository" /\ pc' = "exit") =>
             /\ out' = (IF results = "empty" THEN "Err(NoSeeds)"
                        ELSE "Err(NotFound)")
             /\ results' = results
       /\ out' \in {"Err(NoSeeds)", "Err(NotFound)"} =>
             /\ pc' = "exit"
             /\ calls' = <<Called("track_repo", TRUE), Called("fetch", TRUE)>>
       /\ \A i \in DOMAIN calls' :
             calls'[i].name = "fetch" =>
                 i = 2 /\ calls'[1] = Called("track_repo", TRUE)
       /\ calls' # <<>> => calls'[1].name = "track_repo"
       /\ (pc = "track" /\ calls'[1] = Called("track_repo", FALSE)) =>
             /\ pc' = "exit"
             /\ out' = "Err(Node)"
             /\ Len(calls') = 1]_vars

\* The fetch returned no result, the repository is not in storage, and the
\* clone ended with NoSeeds after track_repo and fetch.
NotInStorageAfterFetchWitness ==
    /\ pc = "exit"
    /\ out = "Err(NoSeeds)"
    /\ results = "empty"
    /\ calls = <<Called("track_repo", TRUE), Called("fetch", TRUE)>>

\* C39: an announce_refs that fails after the fork does not end the clone.
\* Right after it the clone is at the identity document with no result yet;
\* it ends without a checkout only if the document does not load, and it
\* returns Ok when the checkout succeeds.
AnnounceFailureNotFatal ==
    \A i \in CallsOf("announce_refs") :
        ~calls[i].ok =>
            /\ out \in {"", "Ok", "Err(Doc)", "Err(Checkout)"}
            /\ i = Len(calls) =>
                  \/ pc \in {"doc", "checkout"} /\ out = ""
                  \/ pc = "exit" /\ out = "Err(Doc)"
            /\ i < Len(calls) =>
                  /\ Len(calls) = i + 1
                  /\ calls[i + 1].name = "checkout"
                  /\ pc = "exit"
                  /\ out = IF calls[i + 1].ok THEN "Ok" ELSE "Err(Checkout)"

\* The fork was made, its announcement failed, and the clone returned Ok after
\* the checkout.
AnnounceFailureNotFatalWitness ==
    /\ out = "Ok"
    /\ \E i \in CallsOf("announce_refs") :
          /\ ~calls[i].ok
          /\ calls[i - 1] = Called("fork", TRUE)
          /\ calls[i + 1] = Called("checkout", TRUE)

====
